---- MODULE Spec2Model ----
(***************************************************************************)
(* Model of symbaker: the sanitizer, the export-prefix resolution engine,  *)
(* the inheritance enforcer and the two attribute macros (src/src/lib.rs). *)
(*                                                                         *)
(* Strings are sequences of Unicode code points.  An Option<T> is a        *)
(* sequence of length 0 (None) or 1 (Some(v)).                             *)
(***************************************************************************)
EXTENDS Integers, Sequences, FiniteSets, TLC

VARIABLES
    sanIn,      \* the argument of the sanitize call under test
    sanOut,     \* Option: sanitize(sanIn), once computed
    sanTwice,   \* Option: sanitize applied to sanOut, once computed
    env,        \* the process environment, the files and the configuration a macro reads
    attr,       \* Option<String>: attr_prefix of the last resolve_prefix call
    res,        \* Option: the (prefix, sep, source) returned by the last resolve_prefix call
    trace,      \* the lines trace_emit wrote during the last resolve_prefix call
    didWarn,    \* DID_WARN of warn_on_dependency_fallback (OnceLock, per process)
    didWarnInit,\* DID_WARN of warn_if_not_initialized (OnceLock, per process)
    warnCount,  \* number of fallback warnings written to stderr so far
    fbCount,    \* number of invocations that reached warn_on_dependency_fallback in the fallback case
    invCount,   \* number of macro invocations so far
    last,       \* record of the last macro invocation
    applied,    \* set of [macro, source, prefix, export]: export names pushed so far
    moduleCall, \* the rules and the module of the symbaker_module invocation of SpecRules
    image,      \* the bytes of the module image handed to parse_nro_symbols
    built,      \* the symbol entries the image was built from
    damage,     \* what was done to the built image: "none", "poke", "truncate"
    parsed,     \* Option: the Result of parse_nro_symbols(image)
    artifact,   \* the file handed to exported_symbols: path, extension, bytes
    pc,         \* where exported_symbols stands
    tryIdx,     \* index of the next flag combination of the nm loop
    symbols,    \* the local `symbols` of exported_symbols
    attempts,   \* the strategies run so far, each with the names it met and returned
    extracted,  \* Option: the Result exported_symbols returned
    rows,       \* the (artifact, symbols) rows handed to find_duplicate_symbols
    duplicates, \* Option: the report of find_duplicate_symbols(rows)
    duplicatesReordered, \* Option: the report for the same rows in another order
    dynTable,   \* a dynamic table: bytes before it, its (tag, value) entries, bytes after it
    walked,     \* Option: strtab, strsz and symtab after the walk over the dynamic table
    layout,     \* the six segment descriptors of a file
    flat,       \* Option: the flattened image of the file under layout
    traceEnv,   \* SYMBAKER_TRACE and SYMBAKER_TRACE_FILE as the build processes see them
    traceFile,  \* Option: the bytes of the trace file, None while it does not exist
    emitPos,    \* per build process: the line it emits next and whether its text is written
    stderrOut,  \* per build process: the lines trace_emit printed to its stderr
    resolution, \* Option: the Result of write_resolution_report
    dumpFiles,  \* the artifacts of a dump run and the files next to them
    dumpPc,     \* where run_dump_many stands in its loop
    sidecars,   \* the symbol lists written to sidecar files so far, by artifact
    exportsByFile, \* exports_by_file of run_dump_many
    dumpResult  \* Option: the Result of run_dump_many

vars == <<sanIn, sanOut, sanTwice, env, attr, res, trace, didWarn, didWarnInit, warnCount, fbCount, invCount, last, applied, moduleCall,
         image, built, damage, parsed,
         artifact, pc, tryIdx, symbols, attempts, extracted,
         rows, duplicates, duplicatesReordered,
         dynTable, walked, layout, flat,
         traceEnv, traceFile, emitPos, stderrOut, resolution,
         dumpFiles, dumpPc, sidecars, exportsByFile, dumpResult>>

sanVars  == <<sanIn, sanOut, sanTwice>>
resVars  == <<attr, res, trace>>
procVars == <<didWarn, didWarnInit, warnCount, fbCount, invCount, last, applied, moduleCall>>
parseVars == <<image, built, damage, parsed>>
extractVars == <<artifact, pc, tryIdx, symbols, attempts, extracted>>
dupVars  == <<rows, duplicates, duplicatesReordered>>
walkVars == <<dynTable, walked>>
flatVars == <<layout, flat>>
appendVars == <<traceEnv, traceFile, emitPos, stderrOut, resolution>>
dumpVars == <<dumpFiles, dumpPc, sidecars, exportsByFile, dumpResult>>
restVars == <<appendVars, dumpVars>>
moreVars == <<walkVars, flatVars, restVars>>
outVars  == <<parseVars, extractVars, dupVars, moreVars>>

(***************************************************************************)
(* Bounds                                                                  *)
(***************************************************************************)
MaxLen  == 3    \* longest string handed to sanitize in SpecSanitize
MaxPrio == 2    \* longest enumerated custom priority list in SpecResolve
MaxInv  == 3    \* macro invocations per process in Spec
MaxSyms == 2    \* symbol entries of a built module image in SpecParse
MaxRows == 3    \* artifacts handed to find_duplicate_symbols in SpecDup
MaxFile == 12   \* bytes of the file in SpecFlatten
MaxDyn  == 4    \* entries of a dynamic table in SpecDynamic
OffCap  == 1048576  \* offsets saturate here, beyond the end of every modelled buffer

(***************************************************************************)
(* Options and strings                                                     *)
(***************************************************************************)
None == <<>>
Some(v) == <<v>>
IsSome(o) == o /= <<>>
Unwrap(o) == o[1]

Underscore == 95

\* code points around every boundary of the classes sanitize distinguishes:
\* '/', '0', '9', ':', '@', 'A', 'Z', '[', '_', '`', 'a', 'z', '{', 'e-acute'
SampleChars == {47, 48, 57, 58, 64, 65, 90, 91, 95, 96, 97, 122, 123, 233}

\* the sequences over S of length at most n
SeqsUpTo(S, n) == UNION {[1..k -> S] : k \in 0..n}

SampleStrings == SeqsUpTo(SampleChars, MaxLen)

\* char::is_ascii_digit, char::is_ascii_alphanumeric
is_ascii_digit(c) == c \in 48..57
is_ascii_alphanumeric(c) == c \in 48..57 \/ c \in 65..90 \/ c \in 97..122

\* the per-character map of sanitize
sanitize_char(c) == IF is_ascii_alphanumeric(c) \/ c = Underscore THEN c ELSE Underscore

\* sanitize guarding the first character with "not a letter" instead of "a digit"
sanitize_guards_non_letter(s) ==
    LET mapped   == [i \in 1..Len(s) |-> sanitize_char(s[i])]
        nonEmpty == IF mapped = <<>> THEN <<Underscore>> ELSE mapped
    IN  IF nonEmpty[1] \in 65..90 \/ nonEmpty[1] \in 97..122 THEN nonEmpty
        ELSE <<Underscore>> \o nonEmpty

sanitize(s) ==
    LET mapped   == [i \in 1..Len(s) |-> sanitize_char(s[i])]
        nonEmpty == IF mapped = <<>> THEN <<Underscore>> ELSE mapped
    IN  IF is_ascii_digit(nonEmpty[1]) THEN <<Underscore>> \o nonEmpty ELSE nonEmpty

\* the prefix invariant of the data model: [A-Za-z_][A-Za-z0-9_]*
IsValidPrefix(s) ==
    /\ Len(s) > 0
    /\ \A i \in 1..Len(s) : is_ascii_alphanumeric(s[i]) \/ s[i] = Underscore
    /\ ~ is_ascii_digit(s[1])

(***************************************************************************)
(* Prefix sources and configuration                                        *)
(***************************************************************************)
PrefixSource ==
    {"Override", "PreferPackagePrefixPackage", "PreferPackagePrefixCrateFallback",
     "Attr", "EnvPrefix", "Config", "TopPackage", "Workspace", "Package", "Crate",
     "CrateFallbackAfterPriority"}

\* "crate": the name used when CARGO_PKG_NAME is unset
StrCrate == <<99, 114, 97, 116, 101>>
\* "__": the separator used when the configuration names none
DefaultSep == <<95, 95>>

\* the default list with the environment override ahead of the attribute
default_priority_env_first ==
    <<"env_prefix", "attr", "config", "top_package", "workspace", "package", "crate">>

\* the default list with the package's own prefix ahead of the inherited ones
default_priority_package_first ==
    <<"attr", "env_prefix", "config", "package", "top_package", "workspace", "crate">>

default_priority ==
    <<"attr", "env_prefix", "config", "top_package", "workspace", "package", "crate">>

\* Config::default()
ConfigDefault == [prefix |-> None, sep |-> None, priority |-> None, overrides |-> None]

\* str::trim().is_empty(): every character is Unicode White_Space
IsWhitespace(c) ==
    \/ c \in 9..13
    \/ c \in {32, 133, 160, 5760, 8232, 8233, 8239, 8287, 12288}
    \/ c \in 8192..8202
trim_is_empty(s) == \A i \in 1..Len(s) : IsWhitespace(s[i])

\* The figment of load_config: the file named by SYMBAKER_CONFIG merged with the
\* SYMBAKER_* environment (the later provider wins), then extracted; an extraction
\* error gives Config::default().  e.cfg_sep, e.cfg_priority and e.cfg_overrides are
\* the merged values of those keys, e.cfg_file_prefix is the file's prefix key.
load_config_keeps_extracted_keys(e) ==
    [prefix    |-> IF IsSome(e.SYMBAKER_PREFIX) THEN e.SYMBAKER_PREFIX
                   ELSE e.cfg_file_prefix,
     sep       |-> e.cfg_sep,
     priority  |-> e.cfg_priority,
     overrides |-> e.cfg_overrides]

load_config(e) ==
    IF ~ e.cfg_extract_ok THEN ConfigDefault
    ELSE [prefix    |-> IF IsSome(e.SYMBAKER_PREFIX) THEN e.SYMBAKER_PREFIX
                        ELSE e.cfg_file_prefix,
          sep       |-> e.cfg_sep,
          priority  |-> e.cfg_priority,
          overrides |-> e.cfg_overrides]

detect_top_level_package_name(e) ==
    IF IsSome(e.SYMBAKER_TOP_PACKAGE) /\ ~ trim_is_empty(Unwrap(e.SYMBAKER_TOP_PACKAGE))
    THEN e.SYMBAKER_TOP_PACKAGE
    ELSE IF /\ e.CARGO_PRIMARY_PACKAGE
            /\ IsSome(e.CARGO_PKG_NAME)
            /\ ~ trim_is_empty(Unwrap(e.CARGO_PKG_NAME))
    THEN e.CARGO_PKG_NAME
    ELSE None

top_level_package_name(e) == detect_top_level_package_name(e)

\* the values of read_prefix_from_workspace_metadata, read_prefix_from_package_metadata
\* and read_package_prefers_own_prefix for the manifests found from CARGO_MANIFEST_DIR
read_prefix_from_workspace_metadata(e) == e.workspace_prefix
read_prefix_from_package_metadata(e) == e.package_prefix
read_package_prefers_own_prefix(e) == e.prefer_package_prefix

\* the locals of resolve_prefix computed before the first return
Candidates(attr_prefix, e) ==
    LET cfg        == load_config(e)
        crate_name == IF IsSome(e.CARGO_PKG_NAME) THEN Unwrap(e.CARGO_PKG_NAME) ELSE StrCrate
    IN  [attr_prefix      |-> attr_prefix,
         cfg_prefix       |-> cfg.prefix,
         sep              |-> IF IsSome(cfg.sep) THEN Unwrap(cfg.sep) ELSE DefaultSep,
         prio             |-> IF IsSome(cfg.priority) THEN Unwrap(cfg.priority)
                              ELSE default_priority,
         env_prefix       |-> e.SYMBAKER_PREFIX,
         top_package      |-> top_level_package_name(e),
         workspace_prefix |-> read_prefix_from_workspace_metadata(e),
         crate_name       |-> crate_name,
         package_prefix   |-> read_prefix_from_package_metadata(e),
         override_prefix  |-> IF IsSome(cfg.overrides)
                                 /\ crate_name \in DOMAIN Unwrap(cfg.overrides)
                              THEN Some(Unwrap(cfg.overrides)[crate_name])
                              ELSE None]

\* a return of resolve_prefix that hands the raw candidate on
Selected_unsanitized(raw, sep, source) == [prefix |-> raw, sep |-> sep, source |-> source]

\* one return of resolve_prefix: (sanitize(raw), sep, source)
Selected(raw, sep, source) == [prefix |-> sanitize(raw), sep |-> sep, source |-> source]

\* the match with its catch-all arm taking the crate name
priority_arm_unknown_is_crate(key, c) ==
    IF key = "attr" /\ IsSome(c.attr_prefix)
    THEN Some([raw |-> Unwrap(c.attr_prefix), source |-> "Attr"])
    ELSE IF key = "env_prefix" /\ IsSome(c.env_prefix)
    THEN Some([raw |-> Unwrap(c.env_prefix), source |-> "EnvPrefix"])
    ELSE IF key = "config" /\ IsSome(c.cfg_prefix)
    THEN Some([raw |-> Unwrap(c.cfg_prefix), source |-> "Config"])
    ELSE IF key = "top_package" /\ IsSome(c.top_package)
    THEN Some([raw |-> Unwrap(c.top_package), source |-> "TopPackage"])
    ELSE IF key = "workspace" /\ IsSome(c.workspace_prefix)
    THEN Some([raw |-> Unwrap(c.workspace_prefix), source |-> "Workspace"])
    ELSE IF key = "package" /\ IsSome(c.package_prefix)
    THEN Some([raw |-> Unwrap(c.package_prefix), source |-> "Package"])
    ELSE IF key \in {"attr", "env_prefix", "config", "top_package", "workspace", "package"}
    THEN None
    ELSE Some([raw |-> c.crate_name, source |-> "Crate"])

\* one arm of the match in the priority loop: the (raw, source) the arm returns
\* with, or None when the arm falls through to the next key
priority_arm(key, c) ==
    IF key = "attr" THEN
        IF IsSome(c.attr_prefix) THEN Some([raw |-> Unwrap(c.attr_prefix), source |-> "Attr"])
        ELSE None
    ELSE IF key = "env_prefix" THEN
        IF IsSome(c.env_prefix) THEN Some([raw |-> Unwrap(c.env_prefix), source |-> "EnvPrefix"])
        ELSE None
    ELSE IF key = "config" THEN
        IF IsSome(c.cfg_prefix) THEN Some([raw |-> Unwrap(c.cfg_prefix), source |-> "Config"])
        ELSE None
    ELSE IF key = "top_package" THEN
        IF IsSome(c.top_package) THEN Some([raw |-> Unwrap(c.top_package), source |-> "TopPackage"])
        ELSE None
    ELSE IF key = "workspace" THEN
        IF IsSome(c.workspace_prefix)
        THEN Some([raw |-> Unwrap(c.workspace_prefix), source |-> "Workspace"])
        ELSE None
    ELSE IF key = "package" THEN
        IF IsSome(c.package_prefix)
        THEN Some([raw |-> Unwrap(c.package_prefix), source |-> "Package"])
        ELSE None
    ELSE IF key = "crate" THEN Some([raw |-> c.crate_name, source |-> "Crate"])
    ELSE None

\* the loop `for key in prio` from index i on, and the fallback after it
RECURSIVE priority_walk(_, _, _)
priority_walk(prio, i, c) ==
    IF i > Len(prio)
    THEN Selected(c.crate_name, c.sep, "CrateFallbackAfterPriority")
    ELSE LET hit == priority_arm(prio[i], c)
         IN  IF IsSome(hit) THEN Selected(Unwrap(hit).raw, c.sep, Unwrap(hit).source)
             ELSE priority_walk(prio, i + 1, c)

\* resolve_prefix testing the opt-out flag before the override table
resolve_prefix_optout_first(attr_prefix, e) ==
    LET c == Candidates(attr_prefix, e)
    IN  IF read_package_prefers_own_prefix(e)
        THEN IF IsSome(c.package_prefix)
             THEN Selected(Unwrap(c.package_prefix), c.sep, "PreferPackagePrefixPackage")
             ELSE Selected(c.crate_name, c.sep, "PreferPackagePrefixCrateFallback")
        ELSE IF IsSome(c.override_prefix)
        THEN Selected(Unwrap(c.override_prefix), c.sep, "Override")
        ELSE priority_walk(c.prio, 1, c)

\* resolve_prefix letting an attribute prefix win over the opt-out flag
resolve_prefix_attr_over_optout(attr_prefix, e) ==
    LET c == Candidates(attr_prefix, e)
    IN  IF IsSome(c.override_prefix)
        THEN Selected(Unwrap(c.override_prefix), c.sep, "Override")
        ELSE IF read_package_prefers_own_prefix(e) /\ ~ IsSome(attr_prefix)
        THEN IF IsSome(c.package_prefix)
             THEN Selected(Unwrap(c.package_prefix), c.sep, "PreferPackagePrefixPackage")
             ELSE Selected(c.crate_name, c.sep, "PreferPackagePrefixCrateFallback")
        ELSE priority_walk(c.prio, 1, c)

resolve_prefix(attr_prefix, e) ==
    LET c == Candidates(attr_prefix, e)
    IN  IF IsSome(c.override_prefix)
        THEN Selected(Unwrap(c.override_prefix), c.sep, "Override")
        ELSE IF read_package_prefers_own_prefix(e)
        THEN IF IsSome(c.package_prefix)
             THEN Selected(Unwrap(c.package_prefix), c.sep, "PreferPackagePrefixPackage")
             ELSE Selected(c.crate_name, c.sep, "PreferPackagePrefixCrateFallback")
        ELSE priority_walk(c.prio, 1, c)

(***************************************************************************)
(* Environment flags                                                       *)
(***************************************************************************)
\* truthy_env(key), trace_hard_fail(): the environment record holds each flag's reading
truthy_env(e, key) == e[key]
trace_hard_fail(e) == e.SYMBAKER_TRACE_HARD

(***************************************************************************)
(* The trace of resolve_prefix                                             *)
(***************************************************************************)
trace_enabled(e) == truthy_env(e, "SYMBAKER_TRACE")

\* One line handed to trace_emit: the leading words of its format string, the source
\* named after "selected source=", the name={:?} values it prints as <<name, value>>
\* pairs (a String is written Some(s) like the Option<String> values), and the value
\* printed after "sanitized=".
TraceLine(tag, key, raw, sanitized) ==
    [tag |-> tag, key |-> key, raw |-> raw, sanitized |-> sanitized]

\* the single place that writes: nothing unless SYMBAKER_TRACE is truthy
trace_emit(e, line) == IF trace_enabled(e) THEN <<line>> ELSE <<>>

\* did: DID_TRACE is set
trace_bootstrap(e, did) ==
    IF did \/ ~ trace_enabled(e) THEN <<>>
    ELSE trace_emit(e, TraceLine("env", "",
                                 {<<"CARGO_PKG_NAME", e.CARGO_PKG_NAME>>,
                                  <<"SYMBAKER_TOP_PACKAGE", e.SYMBAKER_TOP_PACKAGE>>,
                                  <<"SYMBAKER_PREFIX", e.SYMBAKER_PREFIX>>}, None))

load_config_trace(e) ==
    trace_emit(e, TraceLine("load_config SYMBAKER_CONFIG", "", {}, None))
    \o (IF e.SYMBAKER_CONFIG = "unset" THEN <<>>
        ELSE trace_emit(e, TraceLine("load_config merging file", "", {}, None)))
    \o (IF e.cfg_extract_ok
        THEN trace_emit(e, TraceLine("load_config extracted", "",
                                     {<<"prefix", load_config(e).prefix>>}, None))
        ELSE trace_emit(e, TraceLine("load_config extract error", "", {}, None)))

read_prefix_from_workspace_metadata_trace(e) ==
    IF IsSome(e.workspace_prefix)
    THEN trace_emit(e, TraceLine("workspace metadata prefix found", "",
                                 {<<"prefix", e.workspace_prefix>>}, None))
    ELSE trace_emit(e, TraceLine("workspace metadata prefix not found", "", {}, None))

\* the line "selected source=<key> raw={:?} sanitized={:?}"
selected_trace(e, key, raw) ==
    trace_emit(e, TraceLine("selected", key, {<<"raw", Some(raw)>>}, Some(sanitize(raw))))

\* the lines of the loop `for key in prio` from index i on, and of the fallback
RECURSIVE priority_walk_trace(_, _, _, _)
priority_walk_trace(e, prio, i, c) ==
    IF i > Len(prio)
    THEN selected_trace(e, "crate_fallback_after_priority", c.crate_name)
    ELSE LET hit == priority_arm(prio[i], c)
         IN  IF IsSome(hit) THEN selected_trace(e, prio[i], Unwrap(hit).raw)
             ELSE (IF prio[i] \in {"attr", "env_prefix", "config", "top_package",
                                   "workspace", "package", "crate"}
                   THEN <<>>
                   ELSE trace_emit(e, TraceLine("priority key is unknown and ignored",
                                                prio[i], {}, None)))
                  \o priority_walk_trace(e, prio, i + 1, c)

\* every line one resolve_prefix call writes, in order
resolve_prefix_trace(attr_prefix, e, did) ==
    LET c == Candidates(attr_prefix, e)
    IN  trace_bootstrap(e, did)
        \o load_config_trace(e)
        \o trace_emit(e, TraceLine("resolve_prefix input", "",
                                   {<<"attr_prefix", attr_prefix>>,
                                    <<"config.prefix", c.cfg_prefix>>}, None))
        \o read_prefix_from_workspace_metadata_trace(e)
        \o trace_emit(e, TraceLine("resolved candidates", "",
                                   {<<"env_prefix", c.env_prefix>>,
                                    <<"top_package", c.top_package>>,
                                    <<"workspace_prefix", c.workspace_prefix>>,
                                    <<"package_prefix", c.package_prefix>>,
                                    <<"override_prefix", c.override_prefix>>,
                                    <<"crate", Some(c.crate_name)>>}, None))
        \o (IF IsSome(c.override_prefix)
            THEN selected_trace(e, "override", Unwrap(c.override_prefix))
            ELSE IF read_package_prefers_own_prefix(e)
            THEN IF IsSome(c.package_prefix)
                 THEN selected_trace(e, "prefer_package_prefix(package)",
                                     Unwrap(c.package_prefix))
                 ELSE selected_trace(e, "prefer_package_prefix(crate_fallback)",
                                     c.crate_name)
            ELSE priority_walk_trace(e, c.prio, 1, c))


(***************************************************************************)
(* Inheritance enforcer and fallback warning                               *)
(***************************************************************************)
LocalSources == {"Package", "Crate", "CrateFallbackAfterPriority"}

\* the enforcer without the exemption of the primary package
enforce_inherited_prefix_no_primary_exemption(source, e) ==
    IF ~ truthy_env(e, "SYMBAKER_ENFORCE_INHERIT") THEN "ok"
    ELSE IF source \in {"Package", "Crate", "CrateFallbackAfterPriority"} THEN "violation"
    ELSE "ok"

\* "ok" for Ok(()), "violation" for Err(..)
enforce_inherited_prefix(source, e) ==
    IF ~ truthy_env(e, "SYMBAKER_ENFORCE_INHERIT") THEN "ok"
    ELSE IF e.CARGO_PRIMARY_PACKAGE THEN "ok"
    ELSE IF source \in LocalSources THEN "violation"
    ELSE "ok"

\* the warning without the DID_WARN.set(()) that makes it a one-time warning
warn_on_dependency_fallback_never_set(source, e, did) ==
    IF truthy_env(e, "SYMBAKER_ENFORCE_INHERIT") THEN [print |-> FALSE, did |-> did]
    ELSE IF e.CARGO_PRIMARY_PACKAGE THEN [print |-> FALSE, did |-> did]
    ELSE IF source \in {"Package", "Crate", "CrateFallbackAfterPriority"}
    THEN IF did THEN [print |-> FALSE, did |-> did]
         ELSE [print |-> TRUE, did |-> did]
    ELSE [print |-> FALSE, did |-> did]

\* warn_on_dependency_fallback with DID_WARN = did: whether it prints, and DID_WARN after
warn_on_dependency_fallback(source, e, did) ==
    IF truthy_env(e, "SYMBAKER_ENFORCE_INHERIT") THEN [print |-> FALSE, did |-> did]
    ELSE IF e.CARGO_PRIMARY_PACKAGE THEN [print |-> FALSE, did |-> did]
    ELSE IF source \in LocalSources
    THEN IF did THEN [print |-> FALSE, did |-> did]
         ELSE [print |-> TRUE, did |-> TRUE]
    ELSE [print |-> FALSE, did |-> did]

\* validate_required_config: "ok" or "error"
validate_required_config(e) ==
    IF ~ truthy_env(e, "SYMBAKER_REQUIRE_CONFIG") THEN "ok"
    ELSE IF e.SYMBAKER_CONFIG = "unset" THEN "error"
    ELSE IF e.SYMBAKER_CONFIG = "missing" THEN "error"
    ELSE "ok"

(***************************************************************************)
(* Module rules (src/src/filter.rs)                                        *)
(***************************************************************************)
\* wildcard_match from the loop state (pi, ti, star, match_i); indices are 0-based
\* as in the code, star is an Option<usize>
RECURSIVE wildcard_loop(_, _, _, _, _, _)
wildcard_loop(p, t, pi, ti, star, match_i) ==
    IF ti < Len(t)
    THEN IF pi < Len(p) /\ (p[pi + 1] = 63 \/ p[pi + 1] = t[ti + 1])
         THEN wildcard_loop(p, t, pi + 1, ti + 1, star, match_i)
         ELSE IF pi < Len(p) /\ p[pi + 1] = 42
         THEN wildcard_loop(p, t, pi + 1, ti, Some(pi), ti)
         ELSE IF IsSome(star)
         THEN wildcard_loop(p, t, Unwrap(star) + 1, match_i + 1, star, match_i + 1)
         ELSE FALSE
    ELSE \A k \in (pi + 1)..Len(p) : p[k] = 42

wildcard_match(pattern, text) == wildcard_loop(pattern, text, 0, 0, None, 0)

\* a regex is modelled by whether it compiles and the set of subjects it matches
regex_is_match(r, name) == name \in r.matches

included(rules, name) ==
    LET regex_ok == IF rules.include_regex = <<>> THEN TRUE
                    ELSE \E i \in 1..Len(rules.include_regex) :
                            regex_is_match(rules.include_regex[i], name)
        glob_ok  == IF rules.include_glob = <<>> THEN TRUE
                    ELSE \E i \in 1..Len(rules.include_glob) :
                            wildcard_match(rules.include_glob[i], name)
    IN  regex_ok /\ glob_ok

excluded(rules, name) ==
    \/ \E i \in 1..Len(rules.exclude_regex) : regex_is_match(rules.exclude_regex[i], name)
    \/ \E i \in 1..Len(rules.exclude_glob) : wildcard_match(rules.exclude_glob[i], name)

\* "::"
PathSep == <<58, 58>>

\* should_prefix testing the bare name only
should_prefix_bare_name_only(rules, module, name) ==
    included(rules, name) /\ ~ excluded(rules, name)

should_prefix(rules, module, name) ==
    LET subject == module \o PathSep \o name
        include == included(rules, name) \/ included(rules, subject)
    IN  include /\ ~ excluded(rules, name) /\ ~ excluded(rules, subject)

\* str::replace for a non-empty pattern: the non-overlapping matches, left to right
RECURSIVE str_replace(_, _, _)
str_replace(s, pat, rep) ==
    IF Len(s) < Len(pat) THEN s
    ELSE IF SubSeq(s, 1, Len(pat)) = pat
    THEN rep \o str_replace(SubSeq(s, Len(pat) + 1, Len(s)), pat, rep)
    ELSE <<s[1]>> \o str_replace(Tail(s), pat, rep)

\* "{prefix}", "{sep}", "{module}", "{name}", "{suffix}"
TplPrefix == <<123, 112, 114, 101, 102, 105, 120, 125>>
TplSep    == <<123, 115, 101, 112, 125>>
TplModule == <<123, 109, 111, 100, 117, 108, 101, 125>>
TplName   == <<123, 110, 97, 109, 101, 125>>
TplSuffix == <<123, 115, 117, 102, 102, 105, 120, 125>>

render_export_name(rules, prefix, sep, module, name) ==
    LET suffix == IF IsSome(rules.suffix) THEN Unwrap(rules.suffix) ELSE <<>>
    IN  IF IsSome(rules.template)
        THEN str_replace(
                str_replace(
                    str_replace(
                        str_replace(
                            str_replace(Unwrap(rules.template), TplPrefix, prefix),
                            TplSep, sep),
                        TplModule, module),
                    TplName, name),
                TplSuffix, suffix)
        ELSE prefix \o sep \o name \o suffix

(***************************************************************************)
(* The module-image parser (src/src/out.rs)                                *)
(*                                                                         *)
(* A byte buffer is a sequence of numbers 0..255; the byte at offset k is  *)
(* element k + 1.  A usize offset is a number saturated at OffCap, which   *)
(* lies beyond the end of every buffer of the model.  A u64 that is kept   *)
(* as a value (st_value, st_size) is its four 16-bit limbs, lowest first.  *)
(* A Result is a record: ok, the value, the error message; a message is    *)
(* the sequence of the pieces of its format string and of the values put   *)
(* between them.                                                           *)
(***************************************************************************)
Ok(v) == [ok |-> TRUE, val |-> v, err |-> <<>>]
Err(m) == [ok |-> FALSE, val |-> <<>>, err |-> m]

DT_NULL == 0
DT_STRTAB == 5
DT_SYMTAB == 6
DT_STRSZ == 10

\* bytes[from..to]
Slice(bytes, from, to) == [i \in 1..(to - from) |-> bytes[from + i]]
Zeros(n) == [i \in 1..n |-> 0]
saturating_add(a, b) == IF a + b >= OffCap THEN OffCap ELSE a + b

read_u16_le(bytes, off) ==
    IF off + 2 <= Len(bytes)
    THEN Some(bytes[off + 1] + 256 * bytes[off + 2])
    ELSE None

\* the u32 as a usize
read_u32_le(bytes, off) ==
    IF off + 4 <= Len(bytes)
    THEN Some(IF bytes[off + 4] = 0 /\ bytes[off + 3] < OffCap \div 65536
              THEN bytes[off + 1] + 256 * bytes[off + 2] + 65536 * bytes[off + 3]
              ELSE OffCap)
    ELSE None

\* the u64 as limbs
read_u64_le(bytes, off) ==
    IF off + 8 <= Len(bytes)
    THEN Some([k \in 1..4 |-> bytes[off + 2 * k - 1] + 256 * bytes[off + 2 * k]])
    ELSE None

\* `as usize` of a u64
as_usize(w) ==
    IF w[3] = 0 /\ w[4] = 0 /\ w[2] < OffCap \div 65536 THEN w[1] + 65536 * w[2] ELSE OffCap

U64Zero == <<0, 0, 0, 0>>

\* std::str::from_utf8(bytes).is_ok(), from index i on
RECURSIVE utf8_ok_from(_, _)
utf8_ok_from(b, i) ==
    LET cont(k) == k <= Len(b) /\ b[k] \in 128..191
    IN  IF i > Len(b) THEN TRUE
        ELSE IF b[i] < 128 THEN utf8_ok_from(b, i + 1)
        ELSE IF b[i] \in 194..223 THEN cont(i + 1) /\ utf8_ok_from(b, i + 2)
        ELSE IF b[i] = 224
             THEN i + 1 <= Len(b) /\ b[i + 1] \in 160..191 /\ cont(i + 2)
                  /\ utf8_ok_from(b, i + 3)
        ELSE IF b[i] = 237
             THEN i + 1 <= Len(b) /\ b[i + 1] \in 128..159 /\ cont(i + 2)
                  /\ utf8_ok_from(b, i + 3)
        ELSE IF b[i] \in 225..239 THEN cont(i + 1) /\ cont(i + 2) /\ utf8_ok_from(b, i + 3)
        ELSE IF b[i] = 240
             THEN i + 1 <= Len(b) /\ b[i + 1] \in 144..191 /\ cont(i + 2) /\ cont(i + 3)
                  /\ utf8_ok_from(b, i + 4)
        ELSE IF b[i] \in 241..243
             THEN cont(i + 1) /\ cont(i + 2) /\ cont(i + 3) /\ utf8_ok_from(b, i + 4)
        ELSE IF b[i] = 244
             THEN i + 1 <= Len(b) /\ b[i + 1] \in 128..143 /\ cont(i + 2) /\ cont(i + 3)
                  /\ utf8_ok_from(b, i + 4)
        ELSE FALSE
from_utf8_ok(b) == utf8_ok_from(b, 1)

\* the loop without the bound of the string table: it stops at a zero byte or at the
\* end of the image only
RECURSIVE cstr_end_ignores_max_end(_, _, _)
cstr_end_ignores_max_end(bytes, end, max_end) ==
    IF end < Len(bytes) /\ bytes[end + 1] /= 0
    THEN cstr_end_ignores_max_end(bytes, end + 1, max_end)
    ELSE end

\* the `while end < max_end && end < bytes.len()` loop of cstr_at
RECURSIVE cstr_end(_, _, _)
cstr_end(bytes, end, max_end) ==
    IF end < max_end /\ end < Len(bytes) /\ bytes[end + 1] /= 0
    THEN cstr_end(bytes, end + 1, max_end)
    ELSE end

cstr_at(bytes, off, max_end) ==
    IF off >= max_end \/ off >= Len(bytes) THEN None
    ELSE LET end == cstr_end(bytes, off, max_end)
         IN  IF end <= off THEN None
             ELSE IF from_utf8_ok(Slice(bytes, off, end)) THEN Some(Slice(bytes, off, end))
             ELSE None

MagicNRO0 == <<78, 82, 79, 48>>
MagicMOD0 == <<77, 79, 68, 48>>
entry_size == 24

\* full.resize(n, 0) when n is beyond the end, full.truncate(n) when it is before
resize_or_truncate(full, n) ==
    IF n > Len(full) THEN full \o Zeros(n - Len(full))
    ELSE IF n < Len(full) THEN SubSeq(full, 1, n)
    ELSE full

\* strtab, strsz and symtab before the loop
NoTags == [strtab |-> None, strsz |-> None, symtab |-> None]

\* the loop with the null tag handled like any tag that is not recorded
RECURSIVE dynamic_loop_walks_past_null(_, _, _)
dynamic_loop_walks_past_null(full, off, st) ==
    IF saturating_add(off, 16) <= Len(full)
    THEN LET tag == as_usize(Unwrap(read_u64_le(full, off)))
             val == as_usize(Unwrap(read_u64_le(full, off + 8)))
         IN  dynamic_loop_walks_past_null(full, off + 16,
                               IF tag = DT_STRTAB THEN [st EXCEPT !.strtab = Some(val)]
                               ELSE IF tag = DT_STRSZ THEN [st EXCEPT !.strsz = Some(val)]
                               ELSE IF tag = DT_SYMTAB THEN [st EXCEPT !.symtab = Some(val)]
                               ELSE st)
    ELSE st

\* the loop over the dynamic table from offset off on; st holds strtab, strsz, symtab
RECURSIVE dynamic_loop(_, _, _)
dynamic_loop(full, off, st) ==
    IF saturating_add(off, 16) <= Len(full)
    THEN LET tag == as_usize(Unwrap(read_u64_le(full, off)))
             val == as_usize(Unwrap(read_u64_le(full, off + 8)))
         IN  IF tag = DT_NULL THEN st
             ELSE dynamic_loop(full, off + 16,
                               IF tag = DT_STRTAB THEN [st EXCEPT !.strtab = Some(val)]
                               ELSE IF tag = DT_STRSZ THEN [st EXCEPT !.strsz = Some(val)]
                               ELSE IF tag = DT_SYMTAB THEN [st EXCEPT !.symtab = Some(val)]
                               ELSE st)
    ELSE st

unwrap_or(o, d) == IF IsSome(o) THEN Unwrap(o) ELSE d

\* st_info >> 4 with the mask on the wrong nibble
st_bind_low_nibble(st_info) == st_info % 16

st_type_of(st_info) == st_info % 16
st_bind_of(st_info) == st_info \div 16

\* one pass of `for i in 0..count`: the rows pushed for entries i .. count - 1
RECURSIVE symbol_loop(_, _, _, _, _, _)
symbol_loop(full, i, count, dynsym_off, dynstr_off, dynstr_end) ==
    IF i >= count THEN <<>>
    ELSE LET base     == dynsym_off + i * entry_size
             name_idx == unwrap_or(read_u32_le(full, base), 0)
             st_info  == IF base + 4 < Len(full) THEN full[base + 5] ELSE 0
             st_shndx == unwrap_or(read_u16_le(full, base + 6), 0)
             st_value == unwrap_or(read_u64_le(full, base + 8), U64Zero)
             st_size  == unwrap_or(read_u64_le(full, base + 16), U64Zero)
             name     == cstr_at(full, saturating_add(dynstr_off, name_idx), dynstr_end)
             rest     == symbol_loop(full, i + 1, count, dynsym_off, dynstr_off, dynstr_end)
         IN  IF name_idx = 0 THEN rest
             ELSE IF st_shndx = 0 THEN rest
             ELSE IF IsSome(name) /\ Unwrap(name) /= <<>>
             THEN <<[name    |-> Unwrap(name),
                     value   |-> st_value,
                     st_type |-> st_type_of(st_info),
                     st_bind |-> st_bind_of(st_info),
                     size    |-> st_size,
                     shndx   |-> st_shndx]>> \o rest
             ELSE rest

\* Ord of two sequences of numbers: -1, 0, 1
RECURSIVE seq_cmp(_, _, _)
seq_cmp(a, b, i) ==
    IF i > Len(a) /\ i > Len(b) THEN 0
    ELSE IF i > Len(a) THEN -1
    ELSE IF i > Len(b) THEN 1
    ELSE IF a[i] < b[i] THEN -1
    ELSE IF a[i] > b[i] THEN 1
    ELSE seq_cmp(a, b, i + 1)

\* Ord of two u64 values: the highest limb decides first
u64_cmp(a, b) == seq_cmp(<<a[4], a[3], a[2], a[1]>>, <<b[4], b[3], b[2], b[1]>>, 1)

\* the comparator of out.sort_by: value, then name, then shndx
symbol_cmp(a, b) ==
    IF u64_cmp(a.value, b.value) /= 0 THEN u64_cmp(a.value, b.value)
    ELSE IF seq_cmp(a.name, b.name, 1) /= 0 THEN seq_cmp(a.name, b.name, 1)
    ELSE IF a.shndx < b.shndx THEN -1
    ELSE IF a.shndx > b.shndx THEN 1
    ELSE 0

\* an unstable sort: a row goes before the rows it compares equal to
RECURSIVE sort_insert_before_equal(_, _)
sort_insert_before_equal(sorted, row) ==
    IF sorted = <<>> THEN <<row>>
    ELSE IF symbol_cmp(Head(sorted), row) < 0
    THEN <<Head(sorted)>> \o sort_insert_before_equal(Tail(sorted), row)
    ELSE <<row>> \o sorted

\* sort_by is stable: a row goes after every row that does not compare greater
RECURSIVE sort_insert(_, _)
sort_insert(sorted, row) ==
    IF sorted = <<>> THEN <<row>>
    ELSE IF symbol_cmp(Head(sorted), row) <= 0
    THEN <<Head(sorted)>> \o sort_insert(Tail(sorted), row)
    ELSE <<row>> \o sorted

RECURSIVE sort_rows(_, _)
sort_rows(out, n) ==
    IF n = 0 THEN <<>> ELSE sort_insert(sort_rows(out, n - 1), out[n])

\* the flattened image: the text segment, then the read-only segment from rloc on,
\* then the data segment from dloc on
flatten(data, tloc, text_end, rloc, ro_end, dloc, data_end) ==
    resize_or_truncate(
        resize_or_truncate(Slice(data, tloc, text_end), rloc) \o Slice(data, rloc, ro_end),
        dloc)
    \o Slice(data, dloc, data_end)

\* lines 339-392 on the flattened image and the three tags the dynamic loop found
parse_nro_tables(full, st) ==
    IF st.strtab = None \/ st.strsz = None \/ st.symtab = None
    THEN Ok(<<>>)
    ELSE
    LET dynstr_off  == Unwrap(st.strtab)
        dynstr_size == Unwrap(st.strsz)
        dynsym_off  == Unwrap(st.symtab)
        sum         == saturating_add(dynstr_off, dynstr_size)
        dynstr_end  == IF sum < Len(full) THEN sum ELSE Len(full)
    IN  IF \/ dynstr_size = 0
           \/ dynstr_off >= Len(full)
           \/ dynsym_off >= Len(full)
           \/ dynsym_off >= dynstr_off
        THEN Ok(<<>>)
        ELSE IF dynstr_end <= dynstr_off THEN Ok(<<>>)
        ELSE
        LET count == (dynstr_off - dynsym_off) \div entry_size
        IN  CHOOSE sorted \in { Ok(sort_rows(out, Len(out)))
                                : out \in {symbol_loop(full, 0, count, dynsym_off,
                                                       dynstr_off, dynstr_end)} } : TRUE

\* lines 305-337 on the flattened image
parse_nro_flattened(full) ==
    IF read_u32_le(full, 4) = None THEN Err(<<"missing MOD0 offset">>)
    ELSE
    LET modoff == Unwrap(read_u32_le(full, 4))
    IN  IF saturating_add(modoff, 4) > Len(full) THEN Err(<<"invalid MOD0 offset">>)
        ELSE IF Slice(full, modoff, modoff + 4) /= MagicMOD0 THEN Ok(<<>>)
        ELSE IF read_u32_le(full, modoff + 4) = None
        THEN Err(<<"invalid dynamic offset">>)
        ELSE
        LET dynamic_off == saturating_add(modoff, Unwrap(read_u32_le(full, modoff + 4)))
        IN  IF dynamic_off >= Len(full) THEN Ok(<<>>)
            ELSE CHOOSE parsed_ \in { parse_nro_tables(full, st)
                                      : st \in {dynamic_loop(full, dynamic_off, NoTags)} }
                     : TRUE

\* parse_nro_symbols on the bytes fs::read returned
parse_nro_symbols(data) ==
    IF Len(data) < 20 THEN Err(<<"short file">>)
    ELSE IF Slice(data, 16, 20) /= MagicNRO0 THEN Ok(<<>>)
    ELSE IF read_u32_le(data, 32) = None THEN Err(<<"invalid text offset">>)
    ELSE IF read_u32_le(data, 36) = None THEN Err(<<"invalid text size">>)
    ELSE IF read_u32_le(data, 40) = None THEN Err(<<"invalid ro offset">>)
    ELSE IF read_u32_le(data, 44) = None THEN Err(<<"invalid ro size">>)
    ELSE IF read_u32_le(data, 48) = None THEN Err(<<"invalid data offset">>)
    ELSE IF read_u32_le(data, 52) = None THEN Err(<<"invalid data size">>)
    ELSE
    LET tloc     == Unwrap(read_u32_le(data, 32))
        tsize    == Unwrap(read_u32_le(data, 36))
        rloc     == Unwrap(read_u32_le(data, 40))
        rsize    == Unwrap(read_u32_le(data, 44))
        dloc     == Unwrap(read_u32_le(data, 48))
        dsize    == Unwrap(read_u32_le(data, 52))
        text_end == saturating_add(tloc, tsize)
        ro_end   == saturating_add(rloc, rsize)
        data_end == saturating_add(dloc, dsize)
    IN  IF text_end > Len(data) \/ ro_end > Len(data) \/ data_end > Len(data) THEN Ok(<<>>)
        ELSE CHOOSE parsed_ \in { parse_nro_flattened(full)
                                  : full \in {flatten(data, tloc, text_end, rloc, ro_end,
                                                      dloc, data_end)} } : TRUE

\* Vec<String> without repetitions, in order of first appearance: the loop
\* `if !names.iter().any(|n| n == x) { names.push(x) }` over xs[1..n]
RECURSIVE push_unique(_, _)
push_unique(xs, n) ==
    IF n = 0 THEN <<>>
    ELSE CHOOSE out \in { IF \E k \in 1..Len(names) : names[k] = xs[n] THEN names
                          ELSE Append(names, xs[n])
                          : names \in {push_unique(xs, n - 1)} } : TRUE

parse_nro_exports(data) ==
    CHOOSE out \in { IF ~ r.ok THEN r
                     ELSE Ok(push_unique([k \in 1..Len(r.val) |-> r.val[k].name], Len(r.val)))
                     : r \in {parse_nro_symbols(data)} } : TRUE

(***************************************************************************)
(* The fallback extractor (src/src/out.rs)                                 *)
(*                                                                         *)
(* The output of a dump utility is a sequence of lines and a line is the   *)
(* sequence of its whitespace-separated words (empty for a blank line).    *)
(***************************************************************************)
\* the names in the order parse_nm_symbols meets them: the last word of each line
RECURSIVE nm_names(_, _)
nm_names(text, n) ==
    IF n = 0 THEN <<>>
    ELSE IF text[n] = <<>> THEN nm_names(text, n - 1)
    ELSE Append(nm_names(text, n - 1), text[n][Len(text[n])])

\* parse_nm_symbols pushing every name it meets
parse_nm_symbols_keeps_repeats(text) == nm_names(text, Len(text))

parse_nm_symbols(text) == push_unique(nm_names(text, Len(text)), Len(nm_names(text, Len(text))))

starts_with_0x(w) == Len(w) >= 2 /\ w[1] = 48 /\ w[2] = 120
all_ascii_digits(w) == \A i \in DOMAIN w : is_ascii_digit(w[i])

\* the names in the order parse_objdump_exports meets them: the third word of each
\* line that starts with an ordinal and an 0x address
RECURSIVE objdump_names(_, _)
objdump_names(text, n) ==
    IF n = 0 THEN <<>>
    ELSE LET parts == text[n]
         IN  IF Len(parts) >= 3 /\ all_ascii_digits(parts[1]) /\ starts_with_0x(parts[2])
             THEN Append(objdump_names(text, n - 1), parts[3])
             ELSE objdump_names(text, n - 1)

parse_objdump_exports(text) ==
    push_unique(objdump_names(text, Len(text)), Len(objdump_names(text, Len(text))))

\* what Command::output() gave: whether the process could be spawned, whether its
\* exit status is success, its standard output
ToolRun(spawned, success, stdout) ==
    [spawned |-> spawned, success |-> success, stdout |-> stdout]

run_nm(tool, run) ==
    IF ~ run.spawned THEN Err(<<"failed to run", tool>>)
    ELSE IF ~ run.success THEN Ok(<<>>)
    ELSE Ok(parse_nm_symbols(run.stdout))

\* the flag combinations of the nm loop, in order
NmTries == <<"-g --defined-only", "-D --defined-only", "-gD", "-g">>

\* `if symbols.is_empty()` entered whatever the list holds
needs_next_strategy_always(list) == TRUE

\* the guard `if symbols.is_empty()` before each further strategy
needs_next_strategy(list) == list = <<>>

\* path.extension() == Some("nro")
is_nro(a) == a.ext = "nro"

NothingFound ==
    <<"could not extract exported symbols from artifact", "nm", "objdump", "nro parser",
      "found nothing">>

\* the end of exported_symbols
finish_extraction(list) == IF list = <<>> THEN Err(NothingFound) ELSE Ok(list)

(***************************************************************************)
(* The duplicate detector (src/src/bin/cargo-symdump.rs)                   *)
(*                                                                         *)
(* A path is the sequence of its components and a component, like a symbol *)
(* name, is a sequence of bytes.  A BTreeSet or BTreeMap is the sequence of *)
(* its elements in ascending order.                                         *)
(***************************************************************************)
\* Ord of two paths: component by component, a proper prefix first
RECURSIVE path_cmp(_, _, _)
path_cmp(a, b, i) ==
    IF i > Len(a) /\ i > Len(b) THEN 0
    ELSE IF i > Len(a) THEN -1
    ELSE IF i > Len(b) THEN 1
    ELSE IF seq_cmp(a[i], b[i], 1) /= 0 THEN seq_cmp(a[i], b[i], 1)
    ELSE path_cmp(a, b, i + 1)

\* a Vec in place of the BTreeSet: every path pushed at the end
path_set_push(files, path) == Append(files, path)

\* BTreeSet<PathBuf>::insert
path_set_insert(files, path) ==
    IF \E i \in DOMAIN files : path_cmp(files[i], path, 1) = 0 THEN files
    ELSE LET n == Cardinality({i \in DOMAIN files : path_cmp(files[i], path, 1) < 0})
         IN  SubSeq(files, 1, n) \o <<path>> \o SubSeq(files, n + 1, Len(files))

\* by_symbol.entry(symbol).or_default().insert(artifact)
entry_insert(by_symbol, symbol, path) ==
    IF \E i \in DOMAIN by_symbol : by_symbol[i][1] = symbol
    THEN [i \in DOMAIN by_symbol |->
             IF by_symbol[i][1] = symbol
             THEN <<symbol, path_set_insert(by_symbol[i][2], path)>>
             ELSE by_symbol[i]]
    ELSE LET n == Cardinality({i \in DOMAIN by_symbol :
                                   seq_cmp(by_symbol[i][1], symbol, 1) < 0})
         IN  SubSeq(by_symbol, 1, n) \o <<<<symbol, path_set_insert(<<>>, path)>>>>
                 \o SubSeq(by_symbol, n + 1, Len(by_symbol))

\* the inner loop over the first n symbols of one artifact; `seen` holds the symbols
\* met before
RECURSIVE index_symbols(_, _, _, _)
index_symbols(by_symbol, path, list, n) ==
    IF n = 0 THEN by_symbol
    ELSE CHOOSE out \in { IF \E i \in 1..(n - 1) : list[i] = list[n] THEN prev
                          ELSE entry_insert(prev, list[n], path)
                          : prev \in {index_symbols(by_symbol, path, list, n - 1)} } : TRUE

\* the outer loop over the first n artifacts
RECURSIVE index_rows(_, _)
index_rows(rs, n) ==
    IF n = 0 THEN <<>>
    ELSE index_symbols(index_rows(rs, n - 1), rs[n].path, rs[n].symbols,
                       Len(rs[n].symbols))

more_than_one_file(entry) == Len(entry[2]) > 1

find_duplicate_symbols(rs) == SelectSeq(index_rows(rs, Len(rs)), more_than_one_file)

(***************************************************************************)
(* The inputs of the model                                                 *)
(***************************************************************************)
\* raw values, one per source, each changed by sanitize
AttrRaw    == <<97, 45>>          \* "a-"
EnvRaw     == <<55, 101>>         \* "7e"
CfgRaw     == <<99, 46, 102>>     \* "c.f"
TopRaw     == <<116, 32, 112>>    \* "t p"
BlankRaw   == <<32>>              \* " "
WsRaw      == <<119, 233>>        \* "w" followed by e-acute
PkgRaw     == <<57, 112>>         \* "9p"
OvRaw      == <<111, 33>>         \* "o!"
PkgNameRaw == <<100, 45, 107>>    \* "d-k"
OtherPkg   == <<122, 122>>        \* "zz"

PriorityKeys ==
    {"attr", "env_prefix", "config", "top_package", "workspace", "package", "crate", "bogus"}
KnownKeys == PriorityKeys \ {"bogus"}

\* Option<Vec<String>>: no priority key, or any list of at most MaxPrio keys
PriorityLists == {None} \cup {Some(l) : l \in SeqsUpTo(PriorityKeys, MaxPrio)}

\* Option<HashMap<String, String>>: no table, a table with an entry for "d-k", a
\* table with an entry for "zz" only
OverrideTables ==
    {None, Some([n \in {PkgNameRaw} |-> OvRaw]), Some([n \in {OtherPkg} |-> OvRaw])}

\* (CARGO_PKG_NAME, CARGO_PRIMARY_PACKAGE, SYMBAKER_TOP_PACKAGE)
TopInputs ==
    {<<Some(PkgNameRaw), FALSE, None>>, <<Some(PkgNameRaw), FALSE, Some(BlankRaw)>>,
     <<Some(PkgNameRaw), FALSE, Some(TopRaw)>>, <<Some(PkgNameRaw), TRUE, None>>,
     <<None, TRUE, None>>, <<None, FALSE, None>>}

\* the configuration part of the environment: an extraction error, or the merged keys
ConfigInputs ==
    [ok : {FALSE}, file_prefix : {None, Some(CfgRaw)},
     priority : {None, Some(<<"crate">>)},
     overrides : {None, Some([n \in {PkgNameRaw} |-> OvRaw])}]
    \cup [ok : {TRUE}, file_prefix : {None, Some(CfgRaw)},
          priority : PriorityLists, overrides : OverrideTables]

MkEnv(top, envp, cfg, ws, pkg, prefers, flags) ==
    [CARGO_PKG_NAME           |-> top[1],
     CARGO_PRIMARY_PACKAGE    |-> top[2],
     SYMBAKER_TOP_PACKAGE     |-> top[3],
     SYMBAKER_PREFIX          |-> envp,
     SYMBAKER_CONFIG          |-> IF IsSome(cfg.file_prefix) THEN "exists" ELSE flags.config,
     cfg_extract_ok           |-> cfg.ok,
     cfg_file_prefix          |-> cfg.file_prefix,
     cfg_sep                  |-> IF IsSome(cfg.file_prefix) THEN Some(<<Underscore>>) ELSE None,
     cfg_priority             |-> cfg.priority,
     cfg_overrides            |-> cfg.overrides,
     workspace_prefix         |-> ws,
     package_prefix           |-> pkg,
     prefer_package_prefix    |-> prefers,
     SYMBAKER_ENFORCE_INHERIT |-> flags.enforce,
     SYMBAKER_TRACE           |-> flags.trace,
     SYMBAKER_TRACE_HARD      |-> flags.trace_hard,
     SYMBAKER_REQUIRE_CONFIG  |-> flags.require_config,
     SYMBAKER_INITIALIZED     |-> flags.initialized]

NoFlags ==
    [enforce |-> FALSE, trace |-> FALSE, trace_hard |-> FALSE, require_config |-> FALSE,
     initialized |-> TRUE, config |-> "unset"]

AttrInputs == {None, Some(<<>>), Some(AttrRaw)}

(***************************************************************************)
(* SpecSanitize: sanitize applied once and twice to every sample string    *)
(***************************************************************************)
IdleEnv == MkEnv(<<None, FALSE, None>>, None,
                 [ok |-> FALSE, file_prefix |-> None, priority |-> None, overrides |-> None],
                 None, None, FALSE, NoFlags)
NoCall == [macro |-> "none", outcome |-> "none", resolved |-> FALSE, source |-> "none",
           prefix |-> <<>>, warned |-> FALSE, enforce |-> "none", exports |-> {}]

\* no image, artifact or symbol list is under examination
ParseIdle ==
    /\ image = <<>>
    /\ built = <<>>
    /\ damage = "none"
    /\ parsed = None

ExtractIdle ==
    /\ artifact = [path |-> "", ext |-> "", data |-> <<>>]
    /\ pc = "idle"
    /\ tryIdx = 0
    /\ symbols = <<>>
    /\ attempts = <<>>
    /\ extracted = None

DupIdle ==
    /\ rows = <<>>
    /\ duplicates = None
    /\ duplicatesReordered = None

WalkIdle ==
    /\ dynTable = <<>>
    /\ walked = None

FlatIdle ==
    /\ layout = <<>>
    /\ flat = None

AppendIdle ==
    /\ traceEnv = <<>>
    /\ traceFile = None
    /\ emitPos = <<>>
    /\ stderrOut = <<>>
    /\ resolution = None

DumpIdle ==
    /\ dumpFiles = <<>>
    /\ dumpPc = 0
    /\ sidecars = <<>>
    /\ exportsByFile = <<>>
    /\ dumpResult = None

RestIdle == AppendIdle /\ DumpIdle

MoreIdle == WalkIdle /\ FlatIdle /\ RestIdle

OutIdle == ParseIdle /\ ExtractIdle /\ DupIdle /\ MoreIdle

ProcIdle ==
    /\ didWarn = FALSE
    /\ didWarnInit = FALSE
    /\ warnCount = 0
    /\ fbCount = 0
    /\ invCount = 0
    /\ last = NoCall
    /\ applied = {}
    /\ moduleCall = <<>>

InitSanitize ==
    /\ sanIn \in SampleStrings
    /\ sanOut = None
    /\ sanTwice = None
    /\ env = IdleEnv
    /\ attr = None
    /\ res = None
    /\ trace = <<>>
    /\ ProcIdle
    /\ OutIdle

SanitizeOnce ==
    /\ sanOut = None
    /\ sanOut' = Some(sanitize(sanIn))
    /\ UNCHANGED <<sanIn, sanTwice, env, resVars, procVars, outVars>>

SanitizeAgain ==
    /\ IsSome(sanOut)
    /\ sanTwice = None
    /\ sanTwice' = Some(sanitize(Unwrap(sanOut)))
    /\ UNCHANGED <<sanIn, sanOut, env, resVars, procVars, outVars>>

NextSanitize == SanitizeOnce \/ SanitizeAgain

SpecSanitize == InitSanitize /\ [][NextSanitize]_vars

(***************************************************************************)
(* SpecResolve: one resolve_prefix call in every environment               *)
(***************************************************************************)
\* every environment of the model: the inputs are independent of each other
InitResolve ==
    /\ \E top \in TopInputs, envp \in {None, Some(<<>>), Some(EnvRaw)}, cfg \in ConfigInputs,
          ws \in {None, Some(WsRaw)}, pkg \in {None, Some(PkgRaw)}, prefers \in BOOLEAN :
            env = MkEnv(top, envp, cfg, ws, pkg, prefers, NoFlags)
    /\ attr = None
    /\ res = None
    /\ trace = <<>>
    /\ sanIn = <<>>
    /\ sanOut = None
    /\ sanTwice = None
    /\ ProcIdle
    /\ OutIdle

Resolve ==
    /\ res = None
    /\ \E a \in AttrInputs :
        /\ attr' = a
        /\ res' = Some(resolve_prefix(a, env))
        /\ trace' = resolve_prefix_trace(a, env, FALSE)
    /\ UNCHANGED <<env, sanVars, procVars, outVars>>

NextResolve == Resolve

SpecResolve == InitResolve /\ [][NextResolve]_vars

(***************************************************************************)
(* SpecTrace: one resolve_prefix call with SYMBAKER_TRACE set or unset      *)
(***************************************************************************)
\* the configurations of SpecTrace: the default list, an empty list, a list with an
\* unknown key, a list that names the package prefix only
TraceConfigInputs ==
    [ok : BOOLEAN, file_prefix : {None, Some(CfgRaw)},
     priority : {None, Some(<<>>), Some(<<"bogus", "env_prefix">>), Some(<<"package">>)},
     overrides : OverrideTables]

InitTrace ==
    /\ \E top \in TopInputs, envp \in {None, Some(<<>>), Some(EnvRaw)},
          cfg \in TraceConfigInputs, ws \in {None, Some(WsRaw)},
          pkg \in {None, Some(PkgRaw)}, prefers \in BOOLEAN, tr \in BOOLEAN :
            env = MkEnv(top, envp, cfg, ws, pkg, prefers, [NoFlags EXCEPT !.trace = tr])
    /\ attr = None
    /\ res = None
    /\ trace = <<>>
    /\ sanIn = <<>>
    /\ sanOut = None
    /\ sanTwice = None
    /\ ProcIdle
    /\ OutIdle

SpecTrace == InitTrace /\ [][NextResolve]_vars

(***************************************************************************)
(* SpecParse: parse_nro_symbols on built, poked and truncated images       *)
(***************************************************************************)
\* u32 and u64 fields as the image holds them
u32_le(n) == <<n % 256, (n \div 256) % 256, (n \div 65536) % 256, 0>>
u64_le(w) == <<w[1] % 256, w[1] \div 256, w[2] % 256, w[2] \div 256,
              w[3] % 256, w[3] \div 256, w[4] % 256, w[4] \div 256>>
U64(n) == <<n % 65536, n \div 65536, 0, 0>>

\* the symbol entries images are built from
SymAlpha == [name |-> <<97, 108>>, value |-> U64(4096), st_type |-> 2, st_bind |-> 1,
             size |-> U64(4), shndx |-> 1]
SymBeta  == [name |-> <<98>>, value |-> U64(8192), st_type |-> 1, st_bind |-> 2,
             size |-> U64(8), shndx |-> 2]
\* the same address as SymAlpha and a smaller name
SymTie   == [name |-> <<97>>, value |-> U64(4096), st_type |-> 2, st_bind |-> 1,
             size |-> U64(4), shndx |-> 1]
\* a two-byte UTF-8 name, an address above 2^63, a size of 2^32, the last section
SymHigh  == [name |-> <<195, 169>>, value |-> <<1, 0, 0, 32768>>, st_type |-> 0,
             st_bind |-> 1, size |-> <<0, 0, 1, 0>>, shndx |-> 65535]
\* an undefined reference: section index 0
SymUndef == [name |-> <<117>>, value |-> U64(0), st_type |-> 0, st_bind |-> 1,
             size |-> U64(0), shndx |-> 0]
\* a defined entry whose name is the empty string
SymEmpty == [name |-> <<>>, value |-> U64(12288), st_type |-> 2, st_bind |-> 1,
             size |-> U64(4), shndx |-> 1]
\* a defined entry whose name bytes are not UTF-8
SymBytes == [name |-> <<255>>, value |-> U64(16384), st_type |-> 2, st_bind |-> 1,
             size |-> U64(4), shndx |-> 1]
\* the name, address and section of SymAlpha with another binding and size
SymAlphaWeak == [SymAlpha EXCEPT !.st_bind = 2, !.size = U64(8)]
SymbolPool == {SymAlpha, SymBeta, SymTie, SymHigh, SymUndef, SymEmpty, SymBytes, SymAlphaWeak}
\* the lists of up to MaxSyms entries, no entry listed twice
SymbolLists ==
    {syms \in SeqsUpTo(SymbolPool, MaxSyms) :
        \A i, j \in DOMAIN syms : syms[i] = syms[j] => i = j}

RECURSIVE strtab_bytes(_, _)
strtab_bytes(syms, n) ==
    IF n = 0 THEN <<0>> ELSE strtab_bytes(syms, n - 1) \o syms[n].name \o <<0>>

\* the 24-byte entry of syms[k]: its name index is where its name starts in the
\* string table
symtab_entry(syms, k) ==
    u32_le(Len(strtab_bytes(syms, k - 1)))
    \o <<syms[k].st_bind * 16 + syms[k].st_type, 0>>
    \o <<syms[k].shndx % 256, syms[k].shndx \div 256>>
    \o u64_le(syms[k].value)
    \o u64_le(syms[k].size)

RECURSIVE symtab_bytes(_, _)
symtab_bytes(syms, n) ==
    IF n = 0 THEN Zeros(entry_size) ELSE symtab_bytes(syms, n - 1) \o symtab_entry(syms, n)

\* A well-formed image: the header and the MOD0 descriptor in the text segment
\* [0, 64), the symbol table followed at once by the string table in the read-only
\* segment, the dynamic table in the data segment.
build_image(syms) ==
    LET symtab   == symtab_bytes(syms, Len(syms))
        strtab   == strtab_bytes(syms, Len(syms))
        rloc     == 64
        rsize    == Len(symtab) + Len(strtab)
        dloc     == rloc + rsize
        dynamic  == u64_le(U64(DT_STRTAB)) \o u64_le(U64(rloc + Len(symtab)))
                    \o u64_le(U64(DT_STRSZ)) \o u64_le(U64(Len(strtab)))
                    \o u64_le(U64(DT_SYMTAB)) \o u64_le(U64(rloc))
                    \o u64_le(U64(DT_NULL)) \o u64_le(U64(0))
    IN  Zeros(4) \o u32_le(56) \o Zeros(8) \o MagicNRO0 \o Zeros(12)
        \o u32_le(0) \o u32_le(rloc) \o u32_le(rloc) \o u32_le(rsize)
        \o u32_le(dloc) \o u32_le(Len(dynamic))
        \o MagicMOD0 \o u32_le(dloc - 56)
        \o symtab \o strtab \o dynamic

PokeValues == {0, 2, 255}

\* nothing of the macro library is running
LibIdle ==
    /\ sanIn = <<>>
    /\ sanOut = None
    /\ sanTwice = None
    /\ env = IdleEnv
    /\ attr = None
    /\ res = None
    /\ trace = <<>>
    /\ ProcIdle
libVars == <<sanVars, env, resVars, procVars>>

InitParse ==
    /\ \E syms \in SymbolLists :
        /\ built = syms
        /\ image = build_image(syms)
    /\ damage = "none"
    /\ parsed = None
    /\ LibIdle
    /\ ExtractIdle
    /\ DupIdle
    /\ MoreIdle

\* one byte of the file is overwritten
Poke ==
    /\ damage = "none"
    /\ parsed = None
    /\ \E off \in 0..(Len(image) - 1), v \in PokeValues :
        /\ image[off + 1] /= v
        /\ image' = [image EXCEPT ![off + 1] = v]
    /\ damage' = "poke"
    /\ UNCHANGED <<built, parsed, libVars, extractVars, dupVars, moreVars>>

\* the file is cut short
Truncate ==
    /\ damage = "none"
    /\ parsed = None
    /\ \E n \in 0..(Len(image) - 1) : image' = SubSeq(image, 1, n)
    /\ damage' = "truncate"
    /\ UNCHANGED <<built, parsed, libVars, extractVars, dupVars, moreVars>>

ParseImage ==
    /\ parsed = None
    /\ parsed' = Some(parse_nro_symbols(image))
    /\ UNCHANGED <<image, built, damage, libVars, extractVars, dupVars, moreVars>>

NextParse == Poke \/ Truncate \/ ParseImage

SpecParse == InitParse /\ [][NextParse]_vars

(***************************************************************************)
(* SpecDynamic: the walk over a dynamic table                              *)
(***************************************************************************)
DynTags == {DT_NULL, DT_STRTAB, DT_SYMTAB, DT_STRSZ, DT_STRSZ + 1}
\* a value below 2^16 and one of 2^32
DynValues == {U64(DT_STRSZ + 2), <<0, 0, 1, 0>>}
DynEntries == [tag : DynTags, val : DynValues]
\* no byte or a word of bytes before the table; no byte or half an entry after it
DynTables ==
    [pre : {0, 8}, entries : SeqsUpTo(DynEntries, MaxDyn), tail : {0, 8}]

RECURSIVE entries_bytes(_, _)
entries_bytes(entries, n) ==
    IF n = 0 THEN <<>>
    ELSE entries_bytes(entries, n - 1) \o u64_le(U64(entries[n].tag)) \o u64_le(entries[n].val)

\* the image around the table: the bytes after it are the first half of a DT_STRTAB
\* entry
table_image(t) ==
    Zeros(t.pre) \o entries_bytes(t.entries, Len(t.entries))
    \o SubSeq(u64_le(U64(DT_STRTAB)), 1, t.tail)

InitDynamic ==
    /\ dynTable \in DynTables
    /\ walked = None
    /\ LibIdle
    /\ ParseIdle
    /\ ExtractIdle
    /\ DupIdle
    /\ FlatIdle
    /\ RestIdle

WalkDynamic ==
    /\ walked = None
    /\ walked' = Some(dynamic_loop(table_image(dynTable), dynTable.pre, NoTags))
    /\ UNCHANGED <<dynTable, libVars, parseVars, extractVars, dupVars, flatVars, restVars>>

NextDynamic == WalkDynamic

SpecDynamic == InitDynamic /\ [][NextDynamic]_vars

(***************************************************************************)
(* SpecFlatten: the flattened image of a file under its segment descriptors *)
(***************************************************************************)
\* a file whose byte at offset i is i + 1: no byte is zero and no two are equal
FileBytes == [i \in 1..MaxFile |-> i]

\* text from offset 0 or 2 on; the read-only segment before, at or after the end of
\* the text; the data segment before, at or after the end of the read-only segment
Layouts ==
    {l \in [tloc : {0, 2}, tsize : {2, 3}, rloc : {2, 3, 5}, rsize : {1, 2},
            dloc : {6, 8, 9}, dsize : {1, 3}] :
        /\ l.tloc + l.tsize <= MaxFile
        /\ l.rloc + l.rsize <= MaxFile
        /\ l.dloc + l.dsize <= MaxFile}

InitFlatten ==
    /\ layout \in Layouts
    /\ flat = None
    /\ LibIdle
    /\ ParseIdle
    /\ ExtractIdle
    /\ DupIdle
    /\ WalkIdle
    /\ RestIdle

Flatten ==
    /\ flat = None
    /\ flat' = Some(flatten(FileBytes, layout.tloc, saturating_add(layout.tloc, layout.tsize),
                            layout.rloc, saturating_add(layout.rloc, layout.rsize),
                            layout.dloc, saturating_add(layout.dloc, layout.dsize)))
    /\ UNCHANGED <<layout, libVars, parseVars, extractVars, dupVars, walkVars, restVars>>

NextFlatten == Flatten

SpecFlatten == InitFlatten /\ [][NextFlatten]_vars

(***************************************************************************)
(* SpecExtract: one exported_symbols call, one strategy per step           *)
(***************************************************************************)
SymAlphaAgain == [SymAlpha EXCEPT !.value = U64(12288)]
\* two entries named "al" around one named "b"; no entries; a file of ten bytes; a
\* first magic that is not NRO0
ImgRepeat   == build_image(<<SymAlpha, SymBeta, SymAlphaAgain>>)
ImgNoSyms   == build_image(<<>>)
ImgShort    == SubSeq(ImgRepeat, 1, 10)
ImgBadMagic == [ImgRepeat EXCEPT ![17] = 0]
\* a MOD0 offset (bytes 4..8 of the file) far beyond the end of the image
ImgBadMod0  == [ImgRepeat EXCEPT ![8] = 255]
DataInputs  == {ImgRepeat, ImgNoSyms, ImgShort, ImgBadMagic, ImgBadMod0}

Artifacts ==
    [path : {"plugin.nro"}, ext : {"nro"}, data : DataInputs]
    \cup [path : {"libplugin.so"}, ext : {"so"}, data : {ImgRepeat}]

WordAddr == <<49, 48, 48, 48>>     \* "1000"
WordT    == <<84>>                 \* "T"
WordN1   == <<110, 49>>            \* "n1"
WordN2   == <<110, 50>>            \* "n2"
WordOrd  == <<49>>                 \* "1"
Word0x   == <<48, 120, 49>>        \* "0x1"
WordEx   == <<101, 120>>           \* "ex"
WordEy   == <<101, 121>>           \* "ey"
\* n2, a blank line, n1, n2 again, a line of one word
NmListing ==
    <<<<WordAddr, WordT, WordN2>>, <<>>, <<WordAddr, WordT, WordN1>>,
      <<WordAddr, WordT, WordN2>>, <<WordN1>>>>
\* a heading, two export lines for ey around one for ex, a line without an ordinal
ObjdumpListing ==
    <<<<WordT, WordT>>, <<WordOrd, Word0x, WordEy>>, <<WordOrd, Word0x, WordEx>>,
      <<WordOrd, Word0x, WordEy>>, <<WordT, Word0x, WordN1>>>>

NmRuns ==
    {ToolRun(FALSE, FALSE, <<>>), ToolRun(TRUE, FALSE, NmListing),
     ToolRun(TRUE, TRUE, <<>>), ToolRun(TRUE, TRUE, NmListing)}
ObjdumpRuns ==
    {ToolRun(FALSE, FALSE, <<>>), ToolRun(TRUE, FALSE, ObjdumpListing),
     ToolRun(TRUE, TRUE, <<>>), ToolRun(TRUE, TRUE, ObjdumpListing)}

Attempt(strategy, ok, raw, out) == [strategy |-> strategy, ok |-> ok, raw |-> raw, out |-> out]

\* the names of the rows parse_nro_symbols returned, in its order
nro_row_names(data) ==
    CHOOSE out \in { [k \in 1..Len(r.val) |-> r.val[k].name]
                     : r \in {parse_nro_symbols(data)} } : TRUE

InitExtract ==
    /\ artifact \in Artifacts
    /\ pc = "start"
    /\ tryIdx = 0
    /\ symbols = <<>>
    /\ attempts = <<>>
    /\ extracted = None
    /\ LibIdle
    /\ ParseIdle
    /\ DupIdle
    /\ MoreIdle

Return(r) ==
    /\ pc' = "done"
    /\ extracted' = Some(r)

\* lines 468-471: the custom parser, for an artifact with the extension nro
Begin ==
    /\ pc = "start"
    /\ IF is_nro(artifact)
       THEN \E r \in {parse_nro_exports(artifact.data)} :
                /\ attempts' = Append(attempts, Attempt("nro parser", r.ok,
                                                         nro_row_names(artifact.data), r.val))
                /\ IF ~ r.ok
                   THEN Return(r) /\ UNCHANGED symbols
                   ELSE symbols' = r.val /\ pc' = "nm" /\ UNCHANGED extracted
       ELSE pc' = "nm" /\ UNCHANGED <<symbols, attempts, extracted>>
    /\ UNCHANGED <<artifact, tryIdx, libVars, parseVars, dupVars, moreVars>>

\* lines 472-473: the guard and pick_nm(), which finds a tool or none
PickNm ==
    /\ pc = "nm"
    /\ IF needs_next_strategy(symbols)
       THEN \E found \in BOOLEAN :
                IF found THEN pc' = "nm_try" /\ tryIdx' = 1
                ELSE pc' = "objdump" /\ UNCHANGED tryIdx
       ELSE pc' = "objdump" /\ UNCHANGED tryIdx
    /\ UNCHANGED <<artifact, symbols, attempts, extracted, libVars, parseVars, dupVars, moreVars>>

\* lines 480-485: one pass of the loop over the flag combinations
RunNm ==
    /\ pc = "nm_try"
    /\ \E run \in NmRuns :
        \E r \in {run_nm("nm", run)} :
            /\ attempts' = Append(attempts,
                                   Attempt("nm " \o NmTries[tryIdx], r.ok,
                                           IF run.spawned /\ run.success
                                           THEN nm_names(run.stdout, Len(run.stdout))
                                           ELSE <<>>,
                                           r.val))
            /\ IF ~ r.ok
               THEN Return(r) /\ UNCHANGED <<symbols, tryIdx>>
               ELSE /\ symbols' = r.val
                    /\ UNCHANGED extracted
                    /\ IF r.val /= <<>> \/ tryIdx = Len(NmTries)
                       THEN pc' = "objdump" /\ UNCHANGED tryIdx
                       ELSE pc' = "nm_try" /\ tryIdx' = tryIdx + 1
    /\ UNCHANGED <<artifact, libVars, parseVars, dupVars, moreVars>>

\* lines 489-500: the guard, pick_objdump() and the run of objdump -p
RunObjdump ==
    /\ pc = "objdump"
    /\ IF needs_next_strategy(symbols)
       THEN \E found \in BOOLEAN, run \in ObjdumpRuns :
                IF ~ found
                THEN pc' = "retry" /\ UNCHANGED <<symbols, attempts, extracted>>
                ELSE /\ attempts' = Append(attempts,
                                            Attempt("objdump -p", run.spawned,
                                                    IF run.spawned /\ run.success
                                                    THEN objdump_names(run.stdout,
                                                                       Len(run.stdout))
                                                    ELSE <<>>,
                                                    IF run.spawned /\ run.success
                                                    THEN parse_objdump_exports(run.stdout)
                                                    ELSE <<>>))
                     /\ IF ~ run.spawned
                        THEN Return(Err(<<"failed to run objdump">>)) /\ UNCHANGED symbols
                        ELSE /\ symbols' = IF run.success
                                           THEN parse_objdump_exports(run.stdout)
                                           ELSE symbols
                             /\ pc' = "retry"
                             /\ UNCHANGED extracted
       ELSE pc' = "retry" /\ UNCHANGED <<symbols, attempts, extracted>>
    /\ UNCHANGED <<artifact, tryIdx, libVars, parseVars, dupVars, moreVars>>

\* lines 502-511: the custom parser once more on the file as it is by then, and the
\* end of the function
RetryCustomParser ==
    /\ pc = "retry"
    /\ IF needs_next_strategy(symbols) /\ is_nro(artifact)
       THEN \E d \in DataInputs :
                \E r \in {parse_nro_exports(d)} :
                    /\ artifact' = [artifact EXCEPT !.data = d]
                    /\ attempts' = Append(attempts, Attempt("nro parser retry", r.ok,
                                                             nro_row_names(d), r.val))
                    /\ symbols' = IF r.ok THEN r.val ELSE symbols
                    /\ Return(IF r.ok THEN finish_extraction(r.val) ELSE r)
       ELSE /\ Return(finish_extraction(symbols))
            /\ UNCHANGED <<artifact, symbols, attempts>>
    /\ UNCHANGED <<tryIdx, libVars, parseVars, dupVars, moreVars>>

NextExtract == Begin \/ PickNm \/ RunNm \/ RunObjdump \/ RetryCustomParser

SpecExtract == InitExtract /\ [][NextExtract]_vars

(***************************************************************************)
(* SpecDup: find_duplicate_symbols on a list of artifacts and on the same  *)
(* list in another order                                                   *)
(***************************************************************************)
PathAB   == <<<<97>>, <<98>>>>      \* a/b
PathAdotB == <<<<97, 46, 98>>>>     \* a.b
PathAA   == <<<<97>>, <<97>>>>      \* a/a
SymS1 == <<115, 49>>                \* "s1"
SymS2 == <<115, 50>>                \* "s2"
SymS  == <<115>>                    \* "s"
ListS1S2 == <<SymS1, SymS2>>
ListS2S2 == <<SymS2, SymS2>>
ListSS1  == <<SymS, SymS1>>

RowPool == [path : {PathAB, PathAdotB, PathAA}, symbols : {ListS1S2, ListS2S2, ListSS1}]
RowInputs == UNION {[1..n -> RowPool] : n \in 0..MaxRows}

Injective(f) == \A i, j \in DOMAIN f : f[i] = f[j] => i = j
Reorderings(rs) ==
    {[i \in DOMAIN rs |-> rs[f[i]]] : f \in {g \in [DOMAIN rs -> DOMAIN rs] : Injective(g)}}

InitDup ==
    /\ rows \in RowInputs
    /\ duplicates = None
    /\ duplicatesReordered = None
    /\ LibIdle
    /\ ParseIdle
    /\ ExtractIdle
    /\ MoreIdle

FindDuplicates ==
    /\ duplicates = None
    /\ duplicates' = Some(find_duplicate_symbols(rows))
    /\ UNCHANGED <<rows, duplicatesReordered, libVars, parseVars, extractVars, moreVars>>

FindDuplicatesReordered ==
    /\ duplicatesReordered = None
    /\ \E rs \in Reorderings(rows) :
           duplicatesReordered' = Some(find_duplicate_symbols(rs))
    /\ UNCHANGED <<rows, duplicates, libVars, parseVars, extractVars, moreVars>>

NextDup == FindDuplicates \/ FindDuplicatesReordered

SpecDup == InitDup /\ [][NextDup]_vars

(***************************************************************************)
(* Spec: the macro invocations of one compiler process                     *)
(***************************************************************************)
FnF   == <<102>>    \* "f"
FnG   == <<103>>    \* "g"
ModM  == <<109>>    \* "m"
StarG == <<42, 103>>    \* "*g"

NoRules ==
    [include_regex |-> <<>>, exclude_regex |-> <<>>, include_glob |-> <<>>,
     exclude_glob |-> <<>>, template |-> None, suffix |-> None]

RulesExclude  == [NoRules EXCEPT !.exclude_glob = <<StarG>>]
RulesTemplate ==
    [NoRules EXCEPT !.include_regex = <<[valid |-> TRUE, matches |-> {ModM \o PathSep \o FnF}]>>,
                    !.template = Some(TplPrefix \o TplSep \o TplModule \o TplName)]
RulesInvalid  == [NoRules EXCEPT !.exclude_regex = <<[valid |-> FALSE, matches |-> {}]>>]

\* the modules symbaker_module is applied to: `mod m;` (no content), or the function
\* items of an inline module
ModOutline == [inline |-> FALSE, fns |-> <<>>]
ModTwoFns  == [inline |-> TRUE, fns |-> <<[name |-> FnF, generic |-> FALSE],
                                          [name |-> FnG, generic |-> FALSE]>>]
ModGeneric == [inline |-> TRUE, fns |-> <<[name |-> FnG, generic |-> TRUE]>>]

\* the (rules, module) pairs of the symbaker_module invocations
ModuleCalls ==
    {<<NoRules, ModOutline>>, <<NoRules, ModTwoFns>>, <<NoRules, ModGeneric>>,
     <<RulesExclude, ModTwoFns>>, <<RulesTemplate, ModTwoFns>>, <<RulesInvalid, ModTwoFns>>}

Outcome(macro, outcome, resolved, r, warned, enforce, exports) ==
    [macro |-> macro, outcome |-> outcome, resolved |-> resolved,
     source |-> IF resolved THEN r.source ELSE "none",
     prefix |-> IF resolved THEN r.prefix ELSE <<>>,
     warned |-> warned, enforce |-> enforce, exports |-> exports]

\* #[symbaker] pushing the export name whatever the enforcer returned
symbaker_ignores_enforcer(attr_prefix, rust_name, generic, e, did) ==
    IF validate_required_config(e) = "error"
    THEN Outcome("symbaker", "config_error", FALSE, NoCall, FALSE, "none", {})
    ELSE IF generic
    THEN Outcome("symbaker", "generic_error", FALSE, NoCall, FALSE, "none", {})
    ELSE LET r    == resolve_prefix(attr_prefix, e)
             w    == warn_on_dependency_fallback(r.source, e, did)
             gate == enforce_inherited_prefix(r.source, e)
         IN  IF trace_hard_fail(e)
             THEN Outcome("symbaker", "trace_error", TRUE, r, w.print, gate, {})
             ELSE Outcome("symbaker", "applied", TRUE, r, w.print, gate,
                          {[fn |-> rust_name, export |-> r.prefix \o r.sep \o rust_name]})

\* #[symbaker] on fn rust_name: how the invocation ends
symbaker(attr_prefix, rust_name, generic, e, did) ==
    IF validate_required_config(e) = "error"
    THEN Outcome("symbaker", "config_error", FALSE, NoCall, FALSE, "none", {})
    ELSE IF generic
    THEN Outcome("symbaker", "generic_error", FALSE, NoCall, FALSE, "none", {})
    ELSE LET r    == resolve_prefix(attr_prefix, e)
             w    == warn_on_dependency_fallback(r.source, e, did)
             gate == enforce_inherited_prefix(r.source, e)
         IN  IF gate = "violation"
             THEN Outcome("symbaker", "enforce_error", TRUE, r, w.print, gate, {})
             ELSE IF trace_hard_fail(e)
             THEN Outcome("symbaker", "trace_error", TRUE, r, w.print, gate, {})
             ELSE Outcome("symbaker", "applied", TRUE, r, w.print, gate,
                          {[fn |-> rust_name, export |-> r.prefix \o r.sep \o rust_name]})

\* the loop over the items of an inline module from index i on: the export names
\* pushed, and whether trace_hard_fail returned from inside the loop
RECURSIVE module_items(_, _, _, _, _, _)
module_items(fns, i, rules, module_name, r, e) ==
    IF i > Len(fns) THEN [trace_error |-> FALSE, pushed |-> {}]
    ELSE IF ~ should_prefix(rules, module_name, fns[i].name)
    THEN module_items(fns, i + 1, rules, module_name, r, e)
    ELSE IF fns[i].generic
    THEN module_items(fns, i + 1, rules, module_name, r, e)
    ELSE IF trace_hard_fail(e) THEN [trace_error |-> TRUE, pushed |-> {}]
    ELSE LET rest == module_items(fns, i + 1, rules, module_name, r, e)
             this == [fn |-> fns[i].name,
                      export |-> render_export_name(rules, r.prefix, r.sep,
                                                    module_name, fns[i].name)]
         IN  [rest EXCEPT !.pushed = {this} \cup @]

\* parse_module_rules: "error" when a regex does not compile or a glob holds one of
\* '[', ']', '{', '}'
parse_module_rules(rules) ==
    LET bad_glob(g)   == \E k \in 1..Len(g) : g[k] \in {91, 93, 123, 125}
        bad_globs(gs) == \E i \in 1..Len(gs) : bad_glob(gs[i])
        bad_res(rs)   == \E i \in 1..Len(rs) : ~ rs[i].valid
    IN  IF \/ bad_res(rules.include_regex) \/ bad_res(rules.exclude_regex)
           \/ bad_globs(rules.include_glob) \/ bad_globs(rules.exclude_glob)
        THEN "error" ELSE "ok"

\* #[symbaker_module] on mod module_name
symbaker_module(attr_prefix, rules, module_name, m, e, did) ==
    IF validate_required_config(e) = "error"
    THEN Outcome("symbaker_module", "config_error", FALSE, NoCall, FALSE, "none", {})
    ELSE IF parse_module_rules(rules) = "error"
    THEN Outcome("symbaker_module", "rules_error", FALSE, NoCall, FALSE, "none", {})
    ELSE LET r    == resolve_prefix(attr_prefix, e)
             w    == warn_on_dependency_fallback(r.source, e, did)
             gate == enforce_inherited_prefix(r.source, e)
         IN  IF gate = "violation"
             THEN Outcome("symbaker_module", "enforce_error", TRUE, r, w.print, gate, {})
             ELSE IF ~ m.inline
             THEN Outcome("symbaker_module", "not_inline_error", TRUE, r, w.print, gate, {})
             ELSE LET loop == module_items(m.fns, 1, rules, module_name, r, e)
                  IN  IF loop.trace_error
                      THEN Outcome("symbaker_module", "trace_error", TRUE, r, w.print, gate, {})
                      ELSE Outcome("symbaker_module", "applied", TRUE, r, w.print, gate,
                                   loop.pushed)

\* the environments of Spec: every choice of the flags, with at most two of the
\* prefix inputs present
PrefixInputs ==
    [override : BOOLEAN, prefers : BOOLEAN, pkg : BOOLEAN, ws : BOOLEAN, top : BOOLEAN,
     envp : BOOLEAN, file : BOOLEAN, prio : {"default", "bogus", "local"}]

PresentCount(x) ==
    Cardinality({k \in {"override", "prefers", "pkg", "ws", "top", "envp", "file"} : x[k]})
    + (IF x.prio = "default" THEN 0 ELSE 1)

FlagInputs ==
    [enforce : BOOLEAN, primary : BOOLEAN, trace : {FALSE}, trace_hard : BOOLEAN,
     require_config : BOOLEAN, initialized : BOOLEAN, config : {"missing"}]

ProcEnv(x, f) ==
    MkEnv(<<Some(PkgNameRaw), f.primary, IF x.top THEN Some(TopRaw) ELSE None>>,
          IF x.envp THEN Some(EnvRaw) ELSE None,
          [ok          |-> TRUE,
           file_prefix |-> IF x.file THEN Some(CfgRaw) ELSE None,
           priority    |-> IF x.prio = "bogus" THEN Some(<<"bogus">>)
                           ELSE IF x.prio = "local" THEN Some(<<"workspace", "package", "crate">>)
                           ELSE None,
           overrides   |-> IF x.override THEN Some([n \in {PkgNameRaw} |-> OvRaw]) ELSE None],
          IF x.ws THEN Some(WsRaw) ELSE None,
          IF x.pkg THEN Some(PkgRaw) ELSE None,
          x.prefers, f)

ProcEnvs ==
    {ProcEnv(x, f) : x \in {y \in PrefixInputs : PresentCount(y) <= 2},
                     f \in FlagInputs}

\* the environment reading of warn_if_not_initialized: whether it prints
warn_if_not_initialized(e, did) == ~ truthy_env(e, "SYMBAKER_INITIALIZED") /\ ~ did

\* the source resolved a dependency's own (local) prefix with enforcement off
IsDependencyFallback(o) ==
    /\ o.resolved
    /\ ~ env.SYMBAKER_ENFORCE_INHERIT
    /\ ~ env.CARGO_PRIMARY_PACKAGE
    /\ o.source \in {"Package", "Crate", "CrateFallbackAfterPriority"}

\* the state after an invocation that ended as o
Finish(o) ==
    /\ last' = o
    /\ didWarnInit' = (didWarnInit \/ warn_if_not_initialized(env, didWarnInit))
    /\ didWarn' = IF o.resolved
                  THEN warn_on_dependency_fallback(o.source, env, didWarn).did
                  ELSE didWarn
    /\ warnCount' = warnCount + (IF o.warned THEN 1 ELSE 0)
    /\ fbCount' = fbCount + (IF IsDependencyFallback(o) THEN 1 ELSE 0)
    /\ invCount' = invCount + 1
    /\ applied' = applied \cup
                    {[macro |-> o.macro, source |-> o.source, prefix |-> o.prefix,
                      fn |-> x.fn, export |-> x.export] : x \in o.exports}
    /\ UNCHANGED <<env, sanVars, resVars, outVars>>

Init ==
    /\ env \in ProcEnvs
    /\ sanIn = <<>>
    /\ sanOut = None
    /\ sanTwice = None
    /\ attr = None
    /\ res = None
    /\ trace = <<>>
    /\ ProcIdle
    /\ OutIdle

InvokeSymbaker ==
    /\ invCount < MaxInv
    /\ \E a \in {None, Some(AttrRaw)}, generic \in BOOLEAN :
        \E o \in {symbaker(a, FnF, generic, env, didWarn)} : Finish(o)
    /\ UNCHANGED moduleCall

InvokeSymbakerModule ==
    /\ invCount < MaxInv
    /\ \E a \in {None, Some(AttrRaw)}, call \in ModuleCalls :
        \E o \in {symbaker_module(a, call[1], ModM, call[2], env, didWarn)} : Finish(o)
    /\ UNCHANGED moduleCall

Next == InvokeSymbaker \/ InvokeSymbakerModule

Spec == Init /\ [][Next]_vars

(***************************************************************************)
(* SpecRules: one symbaker_module invocation under every combination of    *)
(* rules                                                                   *)
(***************************************************************************)
FnH      == <<104>>                       \* "h"
QualF    == ModM \o PathSep \o FnF        \* "m::f"
GlobQual == ModM \o PathSep \o <<42>>     \* "m::*"
SuffixS  == <<95, 115>>                   \* "_s"
\* ^f$ and ^m::f$
ReBare == [valid |-> TRUE, matches |-> {FnF}]
ReQual == [valid |-> TRUE, matches |-> {QualF}]
\* {prefix}{sep}{module}_{name}{suffix}
TplFull == TplPrefix \o TplSep \o TplModule \o <<95>> \o TplName \o TplSuffix

RuleInputs ==
    [include_regex : {<<>>, <<ReBare>>, <<ReQual>>},
     exclude_regex : {<<>>, <<ReBare>>},
     include_glob  : {<<>>, <<FnF>>, <<GlobQual>>, <<StarG>>},
     exclude_glob  : {<<>>, <<StarG>>, <<QualF>>},
     template      : {None, Some(TplFull)},
     suffix        : {None, Some(SuffixS)}]

\* mod m { fn f, fn g, fn h<T> }
ModThreeFns ==
    [inline |-> TRUE, fns |-> <<[name |-> FnF, generic |-> FALSE],
                                [name |-> FnG, generic |-> FALSE],
                                [name |-> FnH, generic |-> TRUE]>>]

\* the primary package without and with a configuration file (which sets sep)
RuleEnvs ==
    {ProcEnv([override |-> FALSE, prefers |-> FALSE, pkg |-> FALSE, ws |-> FALSE,
              top |-> FALSE, envp |-> FALSE, file |-> file, prio |-> "default"],
             [enforce |-> FALSE, primary |-> TRUE, trace |-> FALSE, trace_hard |-> FALSE,
              require_config |-> FALSE, initialized |-> TRUE, config |-> "missing"])
        : file \in BOOLEAN}

InitRules ==
    /\ env \in RuleEnvs
    /\ sanIn = <<>>
    /\ sanOut = None
    /\ sanTwice = None
    /\ attr = None
    /\ res = None
    /\ trace = <<>>
    /\ ProcIdle
    /\ OutIdle

InvokeWithRules ==
    /\ invCount = 0
    /\ \E a \in {None, Some(AttrRaw)}, rules \in RuleInputs :
        /\ \E o \in {symbaker_module(a, rules, ModM, ModThreeFns, env, didWarn)} : Finish(o)
        /\ moduleCall' = [rules |-> rules, module_name |-> ModM, m |-> ModThreeFns]

NextRules == InvokeWithRules

SpecRules == InitRules /\ [][NextRules]_vars

(***************************************************************************)
(* Properties of sanitize and resolve_prefix                               *)
(***************************************************************************)
Res == Unwrap(res)
\* what the call read: the configuration, the crate name, the override entry
Cfg == load_config(env)
CrateName == IF env.CARGO_PKG_NAME = None THEN StrCrate ELSE env.CARGO_PKG_NAME[1]
HasOverride == Cfg.overrides /= None /\ CrateName \in DOMAIN Cfg.overrides[1]
OptOut == env.prefer_package_prefix
Prio == IF Cfg.priority = None
        THEN <<"attr", "env_prefix", "config", "top_package", "workspace", "package", "crate">>
        ELSE Cfg.priority[1]
\* the Option<String> a priority key reads
ValueOf(key) ==
    CASE key = "attr"        -> attr
      [] key = "env_prefix"  -> env.SYMBAKER_PREFIX
      [] key = "config"      -> Cfg.prefix
      [] key = "top_package" -> detect_top_level_package_name(env)
      [] key = "workspace"   -> env.workspace_prefix
      [] key = "package"     -> env.package_prefix
      [] key = "crate"       -> Some(CrateName)
      [] OTHER               -> None
TagOf(key) ==
    CASE key = "attr"        -> "Attr"
      [] key = "env_prefix"  -> "EnvPrefix"
      [] key = "config"      -> "Config"
      [] key = "top_package" -> "TopPackage"
      [] key = "workspace"   -> "Workspace"
      [] key = "package"     -> "Package"
      [] key = "crate"       -> "Crate"
      [] OTHER               -> "none"

\* C1: when the override table has an entry for the current package name, the result
\* is the sanitized override value with source Override, whatever the opt-out flag,
\* the attribute prefix and the priority list are.
C1_OverrideWins ==
    (IsSome(res) /\ HasOverride) =>
        /\ Res.source = "Override"
        /\ Res.prefix = sanitize(Cfg.overrides[1][CrateName])

C1_Witness ==
    /\ IsSome(res) /\ HasOverride
    /\ OptOut /\ IsSome(attr) /\ IsSome(env.package_prefix)
    /\ Cfg.priority = Some(<<"attr", "package">>)
    /\ Res.source = "Override"

\* C5 (as claimed): without override entry and opt-out flag, the winner is the first
\* entry of the priority list whose source yields a non-empty candidate; an entry
\* whose source yields nothing or an empty value is passed over; the source tag is
\* the winning entry's.
Yields(key) == IsSome(ValueOf(key)) /\ Unwrap(ValueOf(key)) /= <<>>
C5_FirstNonEmptyWins ==
    (IsSome(res) /\ ~ HasOverride /\ ~ OptOut) =>
        \A i \in 1..Len(Prio) :
            (Yields(Prio[i]) /\ \A j \in 1..(i - 1) : ~ Yields(Prio[j])) =>
                /\ Res.source = TagOf(Prio[i])
                /\ Res.prefix = sanitize(Unwrap(ValueOf(Prio[i])))

\* C6 (as claimed): with attribute, environment override and config value all present
\* and no override entry or opt-out flag, the attribute value is selected.
AllThreePresent ==
    /\ IsSome(res) /\ ~ HasOverride /\ ~ OptOut
    /\ IsSome(attr) /\ IsSome(env.SYMBAKER_PREFIX) /\ IsSome(Cfg.prefix)
C6_AttrAlwaysWins ==
    (/\ AllThreePresent
     /\ Unwrap(attr) /= <<>> /\ Unwrap(env.SYMBAKER_PREFIX) /= <<>> /\ Unwrap(Cfg.prefix) /= <<>>)
        => (Res.source = "Attr" /\ Res.prefix = sanitize(Unwrap(attr)))

\* C6 (amended): with attribute, environment override and config value all present,
\* no override entry, no opt-out flag and no priority list configured (the default
\* order applies), the attribute value is selected, with source Attr.
C6_AttrWinsByDefault ==
    (AllThreePresent /\ Cfg.priority = None) =>
        (Res.source = "Attr" /\ Res.prefix = sanitize(Unwrap(attr)))

C6_Witness ==
    /\ AllThreePresent /\ Cfg.priority = None
    /\ attr = Some(AttrRaw) /\ env.SYMBAKER_PREFIX = Some(EnvRaw)
    /\ env.cfg_file_prefix = Some(CfgRaw)
    /\ Res.source = "Attr"

\* C28: the source Config is returned only with a prefix parsed from the
\* configuration file: the file has a prefix key and the result is its sanitized
\* value, never a value that SYMBAKER_PREFIX supplied.
C28_ConfigSourceOnlyFromFile ==
    (IsSome(res) /\ Res.source = "Config") =>
        /\ IsSome(env.cfg_file_prefix)
        /\ Res.prefix = sanitize(Unwrap(env.cfg_file_prefix))

\* C7: with the opt-out flag set and no override entry the priority list is not
\* consulted: the result is the sanitized package-metadata prefix (PreferOwnPackage)
\* when present, else the sanitized package name (PreferOwnCrateFallback).
C7_OptOutShortCircuits ==
    (IsSome(res) /\ OptOut /\ ~ HasOverride) =>
        IF IsSome(env.package_prefix)
        THEN /\ Res.source = "PreferPackagePrefixPackage"
             /\ Res.prefix = sanitize(Unwrap(env.package_prefix))
        ELSE /\ Res.source = "PreferPackagePrefixCrateFallback"
             /\ Res.prefix = sanitize(CrateName)

C7_Witness ==
    /\ IsSome(res) /\ OptOut /\ ~ HasOverride
    /\ IsSome(attr) /\ IsSome(env.SYMBAKER_PREFIX) /\ IsSome(Cfg.prefix)
    /\ IsSome(env.SYMBAKER_TOP_PACKAGE) /\ IsSome(env.workspace_prefix)
    /\ env.package_prefix = None
    /\ Res.source = "PreferPackagePrefixCrateFallback"

\* C8: when every entry of the priority list is unknown or names a source with no
\* value, the result is the sanitized package name with source
\* CrateFallbackAfterPriority; and the result for any list is the result for the list
\* without its unknown entries.
IsKnownKey(k) ==
    k \in {"attr", "env_prefix", "config", "top_package", "workspace", "package", "crate"}
C8_UnknownKeysSkipped ==
    (IsSome(res) /\ ~ HasOverride /\ ~ OptOut) =>
        /\ (\A i \in 1..Len(Prio) : ~ IsKnownKey(Prio[i]) \/ ValueOf(Prio[i]) = None) =>
                /\ Res.source = "CrateFallbackAfterPriority"
                /\ Res.prefix = sanitize(CrateName)
        /\ Cfg.priority /= None =>
                Res = resolve_prefix(attr,
                        [env EXCEPT !.cfg_priority = Some(SelectSeq(Prio, IsKnownKey))])

C8_Witness ==
    /\ IsSome(res) /\ ~ HasOverride /\ ~ OptOut
    /\ Cfg.priority = Some(<<"bogus", "workspace">>)
    /\ env.workspace_prefix = None
    /\ Res.source = "CrateFallbackAfterPriority"

\* C9: the prefix resolve_prefix returns is non-empty, consists of ASCII letters,
\* digits and underscores only, and does not begin with a digit.
C9_PrefixIsValid ==
    IsSome(res) =>
        /\ Len(Res.prefix) > 0
        /\ \A i \in 1..Len(Res.prefix) :
              \/ Res.prefix[i] \in 48..57
              \/ Res.prefix[i] \in 65..90
              \/ Res.prefix[i] \in 97..122
              \/ Res.prefix[i] = 95
        /\ Res.prefix[1] \notin 48..57

C9_Witness ==
    /\ IsSome(res)
    /\ Res.source = "EnvPrefix"
    /\ env.SYMBAKER_PREFIX = Some(EnvRaw)
    /\ Res.prefix = <<95, 55, 101>>

\* C10: sanitize is idempotent, and an input that satisfies the prefix invariant is
\* returned unchanged.
C10_SanitizeIdempotent ==
    /\ IsSome(sanTwice) => sanTwice = sanOut
    /\ (IsSome(sanOut) /\ IsValidPrefix(sanIn)) => Unwrap(sanOut) = sanIn

C10_Witness ==
    /\ IsSome(sanTwice)
    /\ sanIn = <<57, 47, 233>>
    /\ Unwrap(sanOut) = <<95, 57, 95, 95>>
(***************************************************************************)
(* Properties of the enforcer and the macros                               *)
(***************************************************************************)
EnforcementActive == env.SYMBAKER_ENFORCE_INHERIT
IsTopLevel == env.CARGO_PRIMARY_PACKAGE

\* C2: the enforcer returns a violation if and only if enforcement is active, the
\* package is not the top-level build target and the source is Package, Crate or
\* CrateFallbackAfterPriority; in every other combination it passes.
C2_EnforcerRejectsExactlyLocalDependency ==
    last.resolved =>
        /\ last.enforce \in {"ok", "violation"}
        /\ last.enforce = "violation" <=>
              /\ EnforcementActive
              /\ ~ IsTopLevel
              /\ last.source \in {"Package", "Crate", "CrateFallbackAfterPriority"}

C2_Witness ==
    /\ last.resolved
    /\ last.source = "Package"
    /\ last.enforce = "violation"
    /\ last.outcome = "enforce_error"

\* C3 (as claimed): with enforcement inactive, a non-top-level package resolving via
\* Package, Crate or CrateFallbackAfterPriority never fails: the warning is printed
\* on the first such invocation of the process and never again, every such invocation
\* applies its export name, and nothing else prints the warning.  Stated for the
\* invocations of #[symbaker], the macro the claim cites.
WarnedOnFirstOnly ==
    /\ warnCount = (IF fbCount > 0 THEN 1 ELSE 0)
    /\ last.warned => (IsDependencyFallback(last) /\ fbCount = 1)
C3_FallbackNeverFails ==
    /\ WarnedOnFirstOnly
    /\ (IsDependencyFallback(last) /\ last.macro = "symbaker") => last.outcome = "applied"

\* C3 (amended): with enforcement inactive, a non-top-level package resolving via
\* Package, Crate or CrateFallbackAfterPriority is never rejected by the enforcer:
\* the warning is printed on the first such invocation of the process and never
\* again, nothing else prints it, and every such invocation applies its export name
\* unless SYMBAKER_TRACE_HARD=1 (it ends in the trace compile error) or, in
\* symbaker_module, the module has no inline body.
C3_FallbackWarnsOnceAndPassesGate ==
    /\ WarnedOnFirstOnly
    /\ IsDependencyFallback(last) =>
          /\ last.enforce = "ok"
          /\ last.outcome \in {"applied", "trace_error", "not_inline_error"}
          /\ last.outcome = "trace_error" => env.SYMBAKER_TRACE_HARD
          /\ last.outcome = "not_inline_error" => last.macro = "symbaker_module"
          /\ (last.macro = "symbaker" /\ ~ env.SYMBAKER_TRACE_HARD) =>
                (last.outcome = "applied" /\ last.exports /= {})

C3_Witness ==
    /\ fbCount = 2
    /\ warnCount = 1
    /\ IsDependencyFallback(last)
    /\ ~ last.warned
    /\ last.outcome = "applied"
    /\ last.exports /= {}

\* C4: an export name is pushed only after the enforcer passed: under enforcement,
\* for a package that is not the top-level build target, every export name ever
\* pushed by either macro has a prefix resolved from override, opt-out, attribute,
\* environment, config, top-level or workspace.
C4_RenamedOnlyAfterGate ==
    /\ last.exports /= {} => last.enforce = "ok"
    /\ (EnforcementActive /\ ~ IsTopLevel) =>
          \A x \in applied :
              x.source \in {"Override", "PreferPackagePrefixPackage",
                            "PreferPackagePrefixCrateFallback", "Attr", "EnvPrefix",
                            "Config", "TopPackage", "Workspace"}

C4_Witness ==
    /\ EnforcementActive /\ ~ IsTopLevel
    /\ \E x \in applied : x.macro = "symbaker" /\ x.source = "Attr"
    /\ last.macro = "symbaker_module"
    /\ last.outcome = "enforce_error"

(***************************************************************************)
(* Properties of the default priority list and of a failed configuration   *)
(***************************************************************************)
TopAvailable == IsSome(detect_top_level_package_name(env))
WorkspaceFound == IsSome(env.workspace_prefix)
\* a dependency that declares its own prefix and is given no other instruction
PlainDependencyWithOwnPrefix ==
    /\ IsSome(res)
    /\ Cfg.priority = None
    /\ ~ HasOverride
    /\ ~ OptOut
    /\ attr = None
    /\ env.SYMBAKER_PREFIX = None
    /\ Cfg.prefix = None
    /\ ~ env.CARGO_PRIMARY_PACKAGE
    /\ IsSome(env.package_prefix)

\* C11: under the default priority list, with no override entry, no opt-out flag and
\* no attribute, environment or config prefix, a dependency that declares its own
\* package prefix resolves to the sanitized top-level package name when one is
\* available, otherwise to the sanitized workspace prefix when one is found, and in
\* neither case with source Package, Crate or CrateFallbackAfterPriority.
C11_DependencyInheritsHostPrefix ==
    PlainDependencyWithOwnPrefix =>
        /\ TopAvailable =>
              /\ Res.source = "TopPackage"
              /\ Res.prefix = sanitize(Unwrap(detect_top_level_package_name(env)))
        /\ (~ TopAvailable /\ WorkspaceFound) =>
              /\ Res.source = "Workspace"
              /\ Res.prefix = sanitize(Unwrap(env.workspace_prefix))
        /\ (TopAvailable \/ WorkspaceFound) => Res.source \notin LocalSources

\* a dependency with its own prefix "9p" and no top-level name inherits the workspace
\* prefix
C11_Witness ==
    /\ PlainDependencyWithOwnPrefix
    /\ ~ TopAvailable
    /\ WorkspaceFound
    /\ env.package_prefix = Some(PkgRaw)
    /\ Res.source = "Workspace"
    /\ Res.prefix /= sanitize(PkgRaw)

\* the environment with the same variables and manifests and an empty configuration
EmptyConfigEnv ==
    [env EXCEPT !.cfg_extract_ok = TRUE, !.cfg_file_prefix = None, !.cfg_sep = None,
                !.cfg_priority = None, !.cfg_overrides = None]

\* C12: when the configuration cannot be extracted, resolve_prefix returns what it
\* returns with an empty configuration: separator "__", the default priority list,
\* no config prefix and no override table.
C12_FailedConfigIsEmptyConfig ==
    (IsSome(res) /\ ~ env.cfg_extract_ok) =>
        /\ Res = resolve_prefix(attr, EmptyConfigEnv)
        /\ Res.sep = <<95, 95>>
        /\ Res.source \notin {"Override", "Config"}
        /\ ~ OptOut =>
              \E i \in 1..7 :
                  LET keys == <<"attr", "env_prefix", "config", "top_package",
                                "workspace", "package", "crate">>
                  IN  /\ keys[i] /= "config"
                      /\ IsSome(ValueOf(keys[i]))
                      /\ Res.source = TagOf(keys[i])
                      /\ \A j \in 1..(i - 1) :
                            keys[j] = "config" \/ ValueOf(keys[j]) = None

\* a configuration that names a priority list and an override for the package fails
\* to extract, and the result comes from the default list
C12_Witness ==
    /\ IsSome(res)
    /\ ~ env.cfg_extract_ok
    /\ env.cfg_priority = Some(<<"crate">>)
    /\ IsSome(env.cfg_overrides)
    /\ IsSome(env.cfg_file_prefix)
    /\ Res.source = "Workspace"

(***************************************************************************)
(* Properties of the trace                                                 *)
(***************************************************************************)
\* the candidates of one call: the name a trace line prints the value under, the
\* value, and the sources a "selected" line names when the candidate wins
TraceCandidates ==
    {[name |-> "attr_prefix", value |-> attr, keys |-> {"attr"}],
     [name |-> "env_prefix", value |-> env.SYMBAKER_PREFIX, keys |-> {"env_prefix"}],
     [name |-> "config.prefix", value |-> Cfg.prefix, keys |-> {"config"}],
     [name |-> "top_package", value |-> detect_top_level_package_name(env),
      keys |-> {"top_package"}],
     [name |-> "workspace_prefix", value |-> env.workspace_prefix, keys |-> {"workspace"}],
     [name |-> "package_prefix", value |-> env.package_prefix,
      keys |-> {"package", "prefer_package_prefix(package)"}],
     [name |-> "override_prefix",
      value |-> IF HasOverride THEN Some(Cfg.overrides[1][CrateName]) ELSE None,
      keys |-> {"override"}],
     [name |-> "crate", value |-> Some(CrateName),
      keys |-> {"crate", "prefer_package_prefix(crate_fallback)",
                "crate_fallback_after_priority"}]}

TraceLines == {trace[i] : i \in 1..Len(trace)}
RecordedRaw(cand) ==
    \E l \in TraceLines :
        \/ <<cand.name, cand.value>> \in l.raw
        \/ l.tag = "selected" /\ l.key \in cand.keys /\ <<"raw", cand.value>> \in l.raw
RecordedSanitized(cand) ==
    \E l \in TraceLines :
        /\ l.tag = "selected"
        /\ l.key \in cand.keys
        /\ l.sanitized = Some(sanitize(Unwrap(cand.value)))

\* C13: with tracing enabled, the trace of one resolve_prefix call holds, for every
\* candidate that has a value, both the raw value and the sanitized value, whichever
\* candidate wins.
C13_EveryCandidateTracedRawAndSanitized ==
    (IsSome(res) /\ trace_enabled(env)) =>
        \A cand \in TraceCandidates :
            IsSome(cand.value) => (RecordedRaw(cand) /\ RecordedSanitized(cand))

(***************************************************************************)
(* Properties of the module-image parser                                   *)
(***************************************************************************)
Parsed == Unwrap(parsed)

\* C14: parse_nro_symbols never returns an error for a byte buffer: whatever was
\* overwritten or cut off, the result is Ok, and empty unless symbols were read.
C14_ParserNeverErrs ==
    IsSome(parsed) => Parsed.ok

Count(seq, x) == Cardinality({i \in DOMAIN seq : seq[i] = x})
IsDefined(s) == s.shndx /= 0
BuiltDefined == {built[k] : k \in {i \in DOMAIN built : IsDefined(built[i])}}
\* the parse returned each defined entry of the image as often as the image holds it,
\* with the same name, address, size, section index, type and binding, and nothing else
ReturnsExactlyBuiltDefined ==
    /\ Parsed.ok
    /\ \A s \in BuiltDefined : Count(Parsed.val, s) = Count(built, s)
    /\ \A k \in DOMAIN Parsed.val : Parsed.val[k] \in BuiltDefined

\* C20 as stated: for every well-formed image built from defined symbols (non-zero
\* name index, non-zero section index), parsing returns exactly those symbols.
C20_RoundTripEveryName ==
    (IsSome(parsed) /\ damage = "none") => ReturnsExactlyBuiltDefined

NameIsNonEmptyString(s) ==
    /\ s.name /= <<>>
    /\ from_utf8_ok(s.name)
    /\ \A i \in DOMAIN s.name : s.name[i] /= 0

\* C20 (amended): for every well-formed image built from defined symbols (non-zero
\* name index, non-zero section index) whose names are non-empty valid UTF-8,
\* parsing returns exactly those symbols and no others, each with byte-identical
\* name and the same address, size and section index, the type being the low 4 bits
\* and the binding the high 4 bits of the combined byte.
C20_RoundTripStringNames ==
    (/\ IsSome(parsed)
     /\ damage = "none"
     /\ \A s \in BuiltDefined : NameIsNonEmptyString(s))
        => ReturnsExactlyBuiltDefined

\* beta (Object, Weak) and alpha (Function, Global), built in that order, come back
\* as two rows with alpha first
C20_Witness ==
    /\ IsSome(parsed)
    /\ damage = "none"
    /\ built = <<SymBeta, SymAlpha>>
    /\ Parsed.val = <<SymAlpha, SymBeta>>

\* the rows of seq that compare equal to r on address, name and section index
KeyClass(seq, r) == SelectSeq(seq, LAMBDA x : symbol_cmp(x, r) = 0)
\* the entries of the built image that the parser returns, in symbol-table order
BuiltReturned == SelectSeq(built, LAMBDA x : IsDefined(x) /\ NameIsNonEmptyString(x))

\* C21: the returned list is ascending by (address, name, section index); parsing
\* the same bytes again gives the same list; rows equal on the three keys keep the
\* order their entries have in the symbol table.
C21_SortedStableReproducible ==
    (IsSome(parsed) /\ Parsed.ok) =>
        /\ \A i, j \in DOMAIN Parsed.val :
               i < j => symbol_cmp(Parsed.val[i], Parsed.val[j]) <= 0
        /\ parse_nro_symbols(image) = Parsed
        /\ damage = "none" =>
               \A k \in DOMAIN Parsed.val :
                   KeyClass(Parsed.val, Parsed.val[k]) = KeyClass(BuiltReturned, Parsed.val[k])

\* two entries with one address, name and section index, the weak one first in the
\* table, come back in table order
C21_Witness ==
    /\ IsSome(parsed)
    /\ damage = "none"
    /\ built = <<SymAlphaWeak, SymAlpha>>
    /\ Parsed.val = <<SymAlphaWeak, SymAlpha>>

\* What parse_nro_symbols computes on its way for the image of the state; these are
\* defined for an image the parser went through to the symbol loop.
Field(off) == Unwrap(read_u32_le(image, off))
Full ==
    flatten(image, Field(32), saturating_add(Field(32), Field(36)),
            Field(40), saturating_add(Field(40), Field(44)),
            Field(48), saturating_add(Field(48), Field(52)))
ModOff == Unwrap(read_u32_le(Full, 4))
DynamicOff == saturating_add(ModOff, Unwrap(read_u32_le(Full, ModOff + 4)))
Tags == dynamic_loop(Full, DynamicOff, NoTags)
DynstrOff == Unwrap(Tags.strtab)
DynstrSize == Unwrap(Tags.strsz)
DynsymOff == Unwrap(Tags.symtab)
DynstrEnd ==
    IF saturating_add(DynstrOff, DynstrSize) < Len(Full)
    THEN saturating_add(DynstrOff, DynstrSize) ELSE Len(Full)
\* the rows against the symbol table of the flattened image full, given the three tags
\* of its dynamic table
RowsFromReturnableEntries(list, full, tags) ==
    LET dynstr_off == Unwrap(tags.strtab)
        dynsym_off == Unwrap(tags.symtab)
        sum == saturating_add(dynstr_off, Unwrap(tags.strsz))
        dynstr_end == IF sum < Len(full) THEN sum ELSE Len(full)
        count == (dynstr_off - dynsym_off) \div entry_size
        name_idx == [i \in 0..(count - 1) |->
                        unwrap_or(read_u32_le(full, dynsym_off + i * entry_size), 0)]
        shndx == [i \in 0..(count - 1) |->
                        unwrap_or(read_u16_le(full, dynsym_off + i * entry_size + 6), 0)]
        returnable == {i \in 0..(count - 1) : name_idx[i] /= 0 /\ shndx[i] /= 0}
    IN  /\ \A k \in DOMAIN list :
               /\ list[k].shndx /= 0
               /\ list[k].name /= <<>>
               /\ \A i \in DOMAIN list[k].name : list[k].name[i] /= 0
               /\ \E e \in returnable :
                      LET off == dynstr_off + name_idx[e]
                      IN  /\ shndx[e] = list[k].shndx
                          /\ off + Len(list[k].name) <= dynstr_end
                          /\ list[k].name = Slice(full, off, off + Len(list[k].name))
        /\ Len(list) <= Cardinality(returnable)

\* C22: no returned row has section index 0 or an empty name; every row comes from a
\* symbol-table entry whose name index and section index are not zero, no two rows
\* from one entry; its name is the bytes of the string table from the entry's name
\* index on, holds no zero byte and ends at or before the end of the string table.
C22_DefinedNamedWithinStringTable ==
    (IsSome(parsed) /\ Parsed.ok /\ Parsed.val /= <<>>) =>
        \A full \in {Full} :
            \A modoff \in {Unwrap(read_u32_le(full, 4))} :
                \A tags \in {dynamic_loop(full,
                                  saturating_add(modoff, Unwrap(read_u32_le(full, modoff + 4))),
                                  NoTags)} :
                    \A list \in {Parsed.val} :
                        RowsFromReturnableEntries(list, full, tags)

\* the string-table size overwritten with 2: of the name "al" at index 1 only "a"
\* lies in the table, and "a" is the name returned
C22_Witness ==
    /\ IsSome(parsed)
    /\ damage = "poke"
    /\ built = <<SymAlpha>>
    /\ Parsed.ok
    /\ Len(Parsed.val) = 1
    /\ Parsed.val[1].name = <<97>>
    /\ DynstrSize = 2

\* C23: the result is non-empty only if the three tags were found, the string-table
\* size is not zero, the string table starts after the symbol table, and the symbol
\* table and the whole string table lie within the flattened image.
C23_NonEmptyOnlyForTablesWithinImage ==
    (IsSome(parsed) /\ Parsed.ok /\ Parsed.val /= <<>>) =>
        /\ IsSome(Tags.strtab) /\ IsSome(Tags.strsz) /\ IsSome(Tags.symtab)
        /\ DynstrSize /= 0
        /\ DynstrOff > DynsymOff
        /\ DynsymOff < Len(Full)
        /\ DynstrOff < Len(Full)
        /\ saturating_add(DynstrOff, DynstrSize) <= Len(Full)

(***************************************************************************)
(* Properties of the dynamic-table walk (SpecDynamic)                      *)
(***************************************************************************)
\* the entries before the first null tag, or all of them when there is none
Terminator ==
    IF \E i \in DOMAIN dynTable.entries : dynTable.entries[i].tag = DT_NULL
    THEN CHOOSE i \in DOMAIN dynTable.entries :
             /\ dynTable.entries[i].tag = DT_NULL
             /\ \A j \in 1..(i - 1) : dynTable.entries[j].tag /= DT_NULL
    ELSE Len(dynTable.entries) + 1
\* the value of the last entry with the tag before the terminator
LastBeforeTerminator(tag) ==
    LET hits == {i \in 1..(Terminator - 1) : dynTable.entries[i].tag = tag}
    IN  IF hits = {} THEN None
        ELSE Some(as_usize(dynTable.entries[CHOOSE i \in hits : \A j \in hits : j <= i].val))

\* C29: the walk ends, and for each of the string-table offset, the string-table
\* size and the symbol-table offset it gives the value of the last entry with that
\* tag before the first null tag (before the end of the image when there is none),
\* or none; entries after the null tag and entries with other tags have no effect.
C29_WalkRecordsLastBeforeNull ==
    IsSome(walked) =>
        /\ Unwrap(walked).strtab = LastBeforeTerminator(DT_STRTAB)
        /\ Unwrap(walked).strsz = LastBeforeTerminator(DT_STRSZ)
        /\ Unwrap(walked).symtab = LastBeforeTerminator(DT_SYMTAB)

\* two string-table offsets, then the null tag, then a symbol-table offset: the
\* second string-table offset is recorded and the symbol-table offset is not
C29_Witness ==
    /\ IsSome(walked)
    /\ Len(dynTable.entries) = 4
    /\ dynTable.entries[1] = [tag |-> DT_STRTAB, val |-> <<0, 0, 1, 0>>]
    /\ dynTable.entries[2] = [tag |-> DT_STRTAB, val |-> U64(DT_STRSZ + 2)]
    /\ dynTable.entries[3].tag = DT_NULL
    /\ dynTable.entries[4].tag = DT_SYMTAB
    /\ Unwrap(walked) = [strtab |-> Some(DT_STRSZ + 2), strsz |-> None, symtab |-> None]

(***************************************************************************)
(* Properties of the flattened image (SpecFlatten)                         *)
(***************************************************************************)
Flat == Unwrap(flat)
InOrderNoOverlap ==
    /\ layout.tloc + layout.tsize <= layout.rloc
    /\ layout.rloc + layout.rsize <= layout.dloc
\* the bytes of the file from offset loc on, size of them, are in the image at loc
SegmentAt(loc, size) ==
    \A i \in 1..size : loc + i <= Len(Flat) /\ Flat[loc + i] = FileBytes[loc + i]
ZeroBetween(from, to) == \A i \in (from + 1)..to : i <= Len(Flat) /\ Flat[i] = 0

\* C30: for segments that do not overlap, the image holds the text bytes at the text
\* offset, the read-only bytes at the read-only offset and the data bytes at the data
\* offset, zeros in the gaps between a segment's end and the next segment's offset,
\* and its length is data offset + data size.
C30_SegmentsAtDeclaredOffsets ==
    (IsSome(flat) /\ InOrderNoOverlap) =>
        /\ Len(Flat) = layout.dloc + layout.dsize
        /\ SegmentAt(layout.tloc, layout.tsize)
        /\ SegmentAt(layout.rloc, layout.rsize)
        /\ SegmentAt(layout.dloc, layout.dsize)
        /\ ZeroBetween(layout.tloc + layout.tsize, layout.rloc)
        /\ ZeroBetween(layout.rloc + layout.rsize, layout.dloc)

(***************************************************************************)
(* Properties of the fallback extractor (SpecExtract)                      *)
(***************************************************************************)
Range(xs) == {xs[i] : i \in DOMAIN xs}
Extracted == Unwrap(extracted)
Finished  == pc = "done" /\ IsSome(extracted)
LastAttempt == attempts[Len(attempts)]

\* C15: a structural anomaly met by the custom parser, or a dump utility that cannot
\* be run, never ends the extraction: no extraction ends on a failed attempt, and an
\* extraction that fails, fails with the nothing-found error.
C15_FailsOnlyAfterEveryStrategy ==
    Finished =>
        /\ attempts /= <<>> => LastAttempt.ok
        /\ ~ Extracted.ok => Extracted.err = NothingFound

StrategyOrder ==
    <<"nro parser", "nm -g --defined-only", "nm -D --defined-only", "nm -gD", "nm -g",
      "objdump -p", "nro parser retry">>
Rank(s) == CHOOSE i \in DOMAIN StrategyOrder : StrategyOrder[i] = s
IsNmRank(i) == i \in 2..5

\* C16: the strategies are attempted in the fixed order nro parser, nm with each flag
\* combination in turn, objdump, nro parser again; a strategy is attempted only if
\* every earlier attempt yielded an empty list; a list returned with success is the
\* output of the first attempt that yielded a non-empty one; the nro parser is
\* attempted only for an artifact with the extension nro, and then first.
C16_FixedOrderFirstNonEmptyWins ==
    /\ \A k \in DOMAIN attempts : attempts[k].strategy \in Range(StrategyOrder)
    /\ \A j, k \in DOMAIN attempts :
           j < k => /\ Rank(attempts[j].strategy) < Rank(attempts[k].strategy)
                    /\ attempts[j].out = <<>>
    /\ \A k \in DOMAIN attempts :
           LET i == Rank(attempts[k].strategy)
           IN  /\ i \in {1, 7} => is_nro(artifact)
               /\ i \in 3..5 => k > 1 /\ Rank(attempts[k - 1].strategy) = i - 1
               /\ is_nro(artifact) => Rank(attempts[1].strategy) = 1
    /\ (Finished /\ Extracted.ok) =>
           /\ attempts /= <<>>
           /\ Extracted.val = LastAttempt.out
           /\ Extracted.val /= <<>>

\* the seven strategies attempted one after the other, the last one finding the names
C16_Witness ==
    /\ Finished
    /\ Extracted.ok
    /\ Len(attempts) = Len(StrategyOrder)
    /\ LastAttempt.strategy = "nro parser retry"
    /\ Extracted.val = <<SymAlpha.name, SymBeta.name>>

\* the word by which the final message refers to a strategy
StrategyWord(s) ==
    IF Rank(s) \in {1, 7} THEN "nro parser"
    ELSE IF IsNmRank(Rank(s)) THEN "nm" ELSE "objdump"
NothingProduced ==
    Finished /\ \A k \in DOMAIN attempts : attempts[k].ok /\ attempts[k].out = <<>>

\* C17: when no strategy produced a name the extraction fails, never succeeding with
\* an empty list, and its error names the artifact and every attempted strategy.
C17_FailureNamesArtifactAndStrategies ==
    /\ Finished /\ Extracted.ok => Extracted.val /= <<>>
    /\ NothingProduced =>
           /\ ~ Extracted.ok
           /\ artifact.path \in Range(Extracted.err)
           /\ \A k \in DOMAIN attempts :
                  StrategyWord(attempts[k].strategy) \in Range(Extracted.err)

NoRepeats(xs) == \A i, j \in DOMAIN xs : xs[i] = xs[j] => i = j
FirstIndex(xs, x) == CHOOSE i \in DOMAIN xs : xs[i] = x /\ \A j \in 1..(i - 1) : xs[j] /= x
FirstAppearanceOrder(raw, out) ==
    /\ NoRepeats(out)
    /\ Range(out) = Range(raw)
    /\ \A i, j \in DOMAIN out : i < j => FirstIndex(raw, out[i]) < FirstIndex(raw, out[j])

\* C18: the list of names a strategy yields holds no name twice and holds the names of
\* the strategy's raw output in the order of their first appearance there (for the nro
\* parser, the rows in the parser's sorted order); so does a list returned with success.
C18_NoRepeatsFirstAppearanceOrder ==
    /\ \A k \in DOMAIN attempts : FirstAppearanceOrder(attempts[k].raw, attempts[k].out)
    /\ (Finished /\ Extracted.ok) =>
           FirstAppearanceOrder(LastAttempt.raw, Extracted.val)

\* nm printed n2, n1, n2, n1 and the extraction returned n2, n1
C18_Witness ==
    /\ Finished
    /\ Extracted.ok
    /\ LastAttempt.strategy = "nm -gD"
    /\ LastAttempt.raw = <<WordN2, WordN1, WordN2, WordN1>>
    /\ Extracted.val = <<WordN2, WordN1>>

(***************************************************************************)
(* Properties of the duplicate detector (SpecDup)                          *)
(***************************************************************************)
AllSymbols == UNION {Range(rows[i].symbols) : i \in DOMAIN rows}
Owners(symbol) == {rows[i].path : i \in {k \in DOMAIN rows : symbol \in Range(rows[k].symbols)}}

\* C19: the report holds exactly the symbols listed by more than one distinct
\* artifact, each with exactly the paths of the artifacts that list it; the symbols
\* are in strictly ascending order and so are the paths of each symbol; the report is
\* the same for the artifacts given in another order.
C19_ExactlySharedSymbolsSorted ==
    /\ IsSome(duplicates) =>
           LET report == Unwrap(duplicates)
           IN  /\ {report[i][1] : i \in DOMAIN report} =
                      {x \in AllSymbols : Cardinality(Owners(x)) > 1}
               /\ \A i \in DOMAIN report : Range(report[i][2]) = Owners(report[i][1])
               /\ \A i, j \in DOMAIN report :
                      i < j => seq_cmp(report[i][1], report[j][1], 1) < 0
               /\ \A i \in DOMAIN report : \A a, b \in DOMAIN report[i][2] :
                      a < b => path_cmp(report[i][2][a], report[i][2][b], 1) < 0
    /\ (IsSome(duplicates) /\ IsSome(duplicatesReordered)) =>
           duplicatesReordered = duplicates

\* three artifacts, not in the order of their paths, one of them listing s2 twice and
\* one listing s alone: s1 and s2 are reported, each with its two owners
C19_Witness ==
    /\ rows = <<[path |-> PathAdotB, symbols |-> ListS2S2],
                [path |-> PathAB, symbols |-> ListS1S2],
                [path |-> PathAA, symbols |-> ListSS1]>>
    /\ duplicates = Some(<<<<SymS1, <<PathAA, PathAB>>>>, <<SymS2, <<PathAB, PathAdotB>>>>>>)
    /\ IsSome(duplicatesReordered)

(***************************************************************************)
(* The trace file: trace_emit of concurrent build processes (src/src/lib.rs) *)
(* and the resolution report read from it (src/src/bin/cargo-symdump.rs)    *)
(***************************************************************************)
\* '[symbaker] '
TxTag == <<91, 115, 121, 109, 98, 97, 107, 101, 114, 93, 32>>
\* 'env CARGO_PKG_NAME='
TxEnvPkg == <<101, 110, 118, 32, 67, 65, 82, 71, 79, 95, 80, 75, 71, 95, 78, 65, 77, 69, 61>>
\* ' CARGO_MANIFEST_DIR='
TxEnvDir == <<32, 67, 65, 82, 71, 79, 95, 77, 65, 78, 73, 70, 69, 83, 84, 95, 68, 73, 82, 61>>
\* ' CARGO_PRIMARY_PACKAGE=None SYMBAKER_TOP_PACKAGE=None SYMBAKER_PREFIX=None SYMBAKER_CONFIG=None SYMBAKER_PRIORITY=None'
TxEnvRest == <<32, 67, 65, 82, 71, 79, 95, 80, 82, 73, 77, 65, 82, 89, 95, 80, 65, 67, 75, 65, 71, 69, 61, 78, 111, 110, 101, 32, 83, 89, 77, 66, 65, 75, 69, 82, 95, 84, 79, 80, 95, 80, 65, 67, 75, 65, 71, 69, 61, 78, 111, 110, 101, 32, 83, 89, 77, 66, 65, 75, 69, 82, 95, 80, 82, 69, 70, 73, 88, 61, 78, 111, 110, 101, 32, 83, 89, 77, 66, 65, 75, 69, 82, 95, 67, 79, 78, 70, 73, 71, 61, 78, 111, 110, 101, 32, 83, 89, 77, 66, 65, 75, 69, 82, 95, 80, 82, 73, 79, 82, 73, 84, 89, 61, 78, 111, 110, 101>>
\* 'Some('
TxSome == <<83, 111, 109, 101, 40>>
\* 'selected source='
TxSelected == <<115, 101, 108, 101, 99, 116, 101, 100, 32, 115, 111, 117, 114, 99, 101, 61>>
\* ' raw='
TxRaw == <<32, 114, 97, 119, 61>>
\* ' sanitized='
TxSanitized == <<32, 115, 97, 110, 105, 116, 105, 122, 101, 100, 61>>
\* 'macro=symbaker function='
TxMacro == <<109, 97, 99, 114, 111, 61, 115, 121, 109, 98, 97, 107, 101, 114, 32, 102, 117, 110, 99, 116, 105, 111, 110, 61>>
\* ' resolved_prefix='
TxResolved == <<32, 114, 101, 115, 111, 108, 118, 101, 100, 95, 112, 114, 101, 102, 105, 120, 61>>
\* ' export_name='
TxExport == <<32, 101, 120, 112, 111, 114, 116, 95, 110, 97, 109, 101, 61>>
\* 'env CARGO_PKG_NAME=Some("'
KeyEnvLine == <<101, 110, 118, 32, 67, 65, 82, 71, 79, 95, 80, 75, 71, 95, 78, 65, 77, 69, 61, 83, 111, 109, 101, 40, 34>>
\* 'CARGO_PKG_NAME=Some("'
KeyPkgName == <<67, 65, 82, 71, 79, 95, 80, 75, 71, 95, 78, 65, 77, 69, 61, 83, 111, 109, 101, 40, 34>>
\* 'CARGO_MANIFEST_DIR=Some("'
KeyManifestDir == <<67, 65, 82, 71, 79, 95, 77, 65, 78, 73, 70, 69, 83, 84, 95, 68, 73, 82, 61, 83, 111, 109, 101, 40, 34>>
\* 'sanitized="'
KeySanitized == <<115, 97, 110, 105, 116, 105, 122, 101, 100, 61, 34>>
\* 'export_name="'
KeyExportName == <<101, 120, 112, 111, 114, 116, 95, 110, 97, 109, 101, 61, 34>>
\* 'package'
SrcPackage == <<112, 97, 99, 107, 97, 103, 101>>
\* 'crate'
SrcCrate == <<99, 114, 97, 116, 101>>

\* {:?} of a String without characters that need escaping, and of Some(String)
debug_str(x) == <<34>> \o x \o <<34>>
debug_some(x) == TxSome \o debug_str(x) \o <<41>>

\* the format strings of lib.rs 78-87, 427/432 and 492-495
env_line(pkg, dir) == TxEnvPkg \o debug_some(pkg) \o TxEnvDir \o debug_some(dir) \o TxEnvRest
selected_line(source, raw, sanitized) ==
    TxSelected \o source \o TxRaw \o debug_str(raw) \o TxSanitized \o debug_str(sanitized)
export_line(function, prefix, export) ==
    TxMacro \o debug_str(function) \o TxResolved \o debug_str(prefix)
        \o TxExport \o debug_str(export)

\* line 59: msg = format!("[symbaker] {}", line)
trace_message(line) == TxTag \o line

\* str::find: the index of the first byte of the first occurrence of key, 0 for none
str_find(x, key, i) ==
    LET hits == {k \in i..(Len(x) - Len(key) + 1) : SubSeq(x, k, k + Len(key) - 1) = key}
    IN  IF hits = {} THEN 0 ELSE CHOOSE k \in hits : \A j \in hits : k <= j

str_contains(x, key) == str_find(x, key, 1) /= 0

\* extract_quoted: the text between the key and the next double quote
extract_quoted(line, key) ==
    LET at == str_find(line, key, 1)
        tail == SubSeq(line, at + Len(key), Len(line))
        end == str_find(tail, <<34>>, 1)
    IN  IF at = 0 THEN None
        ELSE IF end = 0 THEN None
        ELSE Some(SubSeq(tail, 1, end - 1))

\* str::lines: the pieces between line feeds, a carriage return before a line feed
\* dropped, no piece for an empty rest after the last line feed
RECURSIVE str_lines(_)
str_lines(body) ==
    IF body = <<>> THEN <<>>
    ELSE LET nl == str_find(body, <<10>>, 1)
             raw == IF nl = 0 THEN body ELSE SubSeq(body, 1, nl - 1)
             line == IF nl /= 0 /\ raw /= <<>> /\ raw[Len(raw)] = 13
                     THEN SubSeq(raw, 1, Len(raw) - 1) ELSE raw
         IN  IF nl = 0 THEN <<line>>
             ELSE <<line>> \o str_lines(SubSeq(body, nl + 1, Len(body)))

is_space(b) == b \in {9, 10, 11, 12, 13, 32}

\* split_whitespace().next().unwrap_or(""): the first run of bytes that are not spaces
RECURSIVE first_word(_)
first_word(x) ==
    IF x = <<>> THEN <<>>
    ELSE IF is_space(x[1]) THEN first_word(Tail(x))
    ELSE LET ends == {i \in 1..Len(x) : is_space(x[i])}
         IN  IF ends = {} THEN x
             ELSE SubSeq(x, 1, (CHOOSE i \in ends : \A j \in ends : i <= j) - 1)

\* line.split(key).nth(1): the text between the first occurrence of key and the next
split_second(line, key) ==
    LET at == str_find(line, key, 1)
        tail == SubSeq(line, at + Len(key), Len(line))
        next == str_find(tail, key, 1)
    IN  IF at = 0 THEN None
        ELSE IF next = 0 THEN Some(tail)
        ELSE Some(SubSeq(tail, 1, next - 1))

\* TraceCrate::default()
DefaultTraceCrate ==
    [name |-> <<>>, manifest_dir |-> None, selected_source |-> None,
     resolved_prefix |-> None, symbols |-> <<>>]

\* map.entry(name).or_default(): the map with an entry for name
with_entry(map, name) ==
    [n \in DOMAIN map \cup {name} |-> IF n \in DOMAIN map THEN map[n] ELSE DefaultTraceCrate]

\* lines 171-212: what one line does to the map and to current_crate
trace_line_step(st, line) ==
    IF str_contains(line, KeyEnvLine)
    THEN LET crate_name == extract_quoted(line, KeyPkgName)
             manifest == extract_quoted(line, KeyManifestDir)
         IN  IF IsSome(crate_name)
             THEN [current |-> crate_name,
                   map |-> [with_entry(st.map, Unwrap(crate_name))
                               EXCEPT ![Unwrap(crate_name)].name = Unwrap(crate_name),
                                      ![Unwrap(crate_name)].manifest_dir = manifest]]
             ELSE st
    ELSE IF str_contains(line, TxSelected)
    THEN IF IsSome(st.current)
         THEN LET name == Unwrap(st.current)
                  word == first_word(Unwrap(split_second(line, TxSelected)))
                  source == IF word = <<>> THEN None ELSE Some(word)
                  prefix == extract_quoted(line, KeySanitized)
                  entry == with_entry(st.map, name)[name]
              IN  [st EXCEPT !.map =
                      [with_entry(st.map, name) EXCEPT ![name] =
                          [entry EXCEPT
                              !.name = IF entry.name = <<>> THEN name ELSE entry.name,
                              !.selected_source =
                                  IF IsSome(source) THEN source ELSE entry.selected_source,
                              !.resolved_prefix =
                                  IF IsSome(prefix) THEN prefix ELSE entry.resolved_prefix]]]
         ELSE st
    ELSE IF str_contains(line, KeyExportName)
    THEN IF IsSome(st.current) /\ IsSome(extract_quoted(line, KeyExportName))
         THEN LET name == Unwrap(st.current)
                  export == Unwrap(extract_quoted(line, KeyExportName))
                  entry == with_entry(st.map, name)[name]
              IN  [st EXCEPT !.map =
                      [with_entry(st.map, name) EXCEPT ![name].symbols =
                          IF \E i \in DOMAIN entry.symbols : entry.symbols[i] = export
                          THEN entry.symbols
                          ELSE Append(entry.symbols, export)]]
         ELSE st
    ELSE st

RECURSIVE trace_lines_fold(_, _)
trace_lines_fold(ls, n) ==
    IF n = 0 THEN [current |-> None, map |-> <<>>]
    ELSE CHOOSE out \in { trace_line_step(st, ls[n]) : st \in {trace_lines_fold(ls, n - 1)} }
             : TRUE

\* parse_trace_file on the text of the file: the map from package name to TraceCrate
parse_trace_file(body) ==
    CHOOSE out \in { trace_lines_fold(ls, Len(ls)).map : ls \in {str_lines(body)} } : TRUE

\* symbols.sort(): insertion into an ascending list
RECURSIVE sorted_strings(_, _)
sorted_strings(xs, n) ==
    IF n = 0 THEN <<>>
    ELSE LET rest == sorted_strings(xs, n - 1)
             before == {i \in DOMAIN rest : seq_cmp(rest[i], xs[n], 1) <= 0}
             k == Cardinality(before)
         IN  SubSeq(rest, 1, k) \o <<xs[n]>> \o SubSeq(rest, k + 1, Len(rest))

\* the keys of a BTreeMap in its iteration order
RECURSIVE sorted_strings_of(_)
sorted_strings_of(set) ==
    IF set = {} THEN <<>>
    ELSE LET least == CHOOSE x \in set : \A y \in set : seq_cmp(x, y, 1) <= 0
         IN  <<least>> \o sorted_strings_of(set \ {least})

\* lines 276-292: one ResolutionCrate per package of the map (cargo metadata --no-deps
\* lists no dependency edges), the list in ascending order of the names
resolution_crates(traces) ==
    LET names == sorted_strings_of(DOMAIN traces)
    IN  [i \in DOMAIN names |->
            [name |-> names[i],
             manifest_dir |-> traces[names[i]].manifest_dir,
             selected_source |-> traces[names[i]].selected_source,
             resolved_prefix |-> traces[names[i]].resolved_prefix,
             dependencies |-> <<>>,
             symbols |-> sorted_strings(traces[names[i]].symbols,
                                        Len(traces[names[i]].symbols))]]

\* file: Option of the bytes of the trace file
write_resolution_report(file) ==
    IF ~ IsSome(file) THEN Err(<<"trace file missing">>)
    ELSE Ok([crates |-> resolution_crates(parse_trace_file(Unwrap(file)))])

(***************************************************************************)
(* SpecAppend: the build processes of two packages emit their trace lines  *)
(* concurrently, then the resolution report is written                     *)
(***************************************************************************)
PkgA == <<97>>
PkgB == <<98>>
Pkgs == {PkgA, PkgB}
DirOf(p) == <<47>> \o p
ExportOf(p) == p \o DefaultSep \o FnF

\* the lines the build process of package p hands to trace_emit, in order: the
\* environment line of trace_bootstrap, the selected source of resolve_prefix, the
\* export name of the one function the macro is applied to
LinesOf(p) ==
    <<env_line(p, DirOf(p)),
      selected_line(traceEnv.source[p], p, p),
      export_line(FnF, p, ExportOf(p))>>

InitAppend ==
    /\ traceEnv \in [SYMBAKER_TRACE : BOOLEAN, SYMBAKER_TRACE_FILE : BOOLEAN,
                     source : [Pkgs -> {SrcPackage, SrcCrate}]]
    /\ traceFile = None
    /\ emitPos = [p \in Pkgs |-> [line |-> 1, wrote |-> FALSE]]
    /\ stderrOut = [p \in Pkgs |-> <<>>]
    /\ resolution = None
    /\ LibIdle
    /\ ParseIdle
    /\ ExtractIdle
    /\ DupIdle
    /\ WalkIdle
    /\ FlatIdle
    /\ DumpIdle

FileBytes0 == IF IsSome(traceFile) THEN Unwrap(traceFile) ELSE <<>>

\* trace_emit up to the first write of writeln!: the guards of lines 56 and 62-65,
\* eprintln!, the open in append mode (which creates the file), and the text of the
\* message handed to the file in one write
EmitText(p) ==
    /\ emitPos[p].line <= Len(LinesOf(p))
    /\ ~ emitPos[p].wrote
    /\ \E msg \in {trace_message(LinesOf(p)[emitPos[p].line])} :
        IF ~ traceEnv.SYMBAKER_TRACE
        THEN /\ emitPos' = [emitPos EXCEPT ![p].line = @ + 1]
             /\ UNCHANGED <<stderrOut, traceFile>>
        ELSE /\ stderrOut' = [stderrOut EXCEPT ![p] = Append(@, msg)]
             /\ IF ~ traceEnv.SYMBAKER_TRACE_FILE
                THEN /\ emitPos' = [emitPos EXCEPT ![p].line = @ + 1]
                     /\ UNCHANGED traceFile
                ELSE /\ traceFile' = Some(FileBytes0 \o msg)
                     /\ emitPos' = [emitPos EXCEPT ![p].wrote = TRUE]
    /\ UNCHANGED <<traceEnv, resolution, libVars, parseVars, extractVars, dupVars,
                   walkVars, flatVars, dumpVars>>

\* the second write of writeln!(file, "{msg}"): File is unbuffered and write_fmt hands
\* the line feed that follows the argument to the file in a write of its own
EmitNewline(p) ==
    /\ emitPos[p].wrote
    /\ traceFile' = Some(FileBytes0 \o <<10>>)
    /\ emitPos' = [emitPos EXCEPT ![p] = [line |-> @.line + 1, wrote |-> FALSE]]
    /\ UNCHANGED <<traceEnv, stderrOut, resolution, libVars, parseVars, extractVars,
                   dupVars, walkVars, flatVars, dumpVars>>

BuildDone == \A p \in Pkgs : emitPos[p].line > Len(LinesOf(p))

\* cargo-symdump after the build: write_resolution_report on the trace file
WriteReport ==
    /\ BuildDone
    /\ resolution = None
    /\ resolution' = Some(write_resolution_report(traceFile))
    /\ UNCHANGED <<traceEnv, traceFile, emitPos, stderrOut, libVars, parseVars,
                   extractVars, dupVars, walkVars, flatVars, dumpVars>>

NextAppend ==
    \/ \E p \in Pkgs : EmitText(p)
    \/ \E p \in Pkgs : EmitNewline(p)
    \/ WriteReport

SpecAppend == InitAppend /\ [][NextAppend]_vars

(***************************************************************************)
(* Properties of the trace file and the resolution report (SpecAppend)     *)
(***************************************************************************)
Tracing == traceEnv /= <<>> /\ traceEnv.SYMBAKER_TRACE /\ traceEnv.SYMBAKER_TRACE_FILE
FileLines == str_lines(FileBytes0)
EmittedBy(p) == {stderrOut[p][i] : i \in DOMAIN stderrOut[p]}
LinesFrom(p) == SelectSeq(FileLines, LAMBDA l : l \in EmittedBy(p))

\* every line of the file is one emitted message, every emitted message is one line of
\* the file, and the lines of each process stand in the order it emitted them
LinesIntactInOrder ==
    /\ \A i \in DOMAIN FileLines : \E p \in Pkgs : FileLines[i] \in EmittedBy(p)
    /\ \A p \in Pkgs : LinesFrom(p) = stderrOut[p]
    /\ FileBytes0 = <<>> \/ FileBytes0[Len(FileBytes0)] = 10

\* an emit leaves the bytes the file holds where they are and adds at the end
AppendOnly ==
    IsSome(traceFile) =>
        /\ IsSome(traceFile')
        /\ Len(Unwrap(traceFile')) >= Len(Unwrap(traceFile))
        /\ SubSeq(Unwrap(traceFile'), 1, Len(Unwrap(traceFile))) = Unwrap(traceFile)

\* C24: when several build processes append trace lines to the same trace file
\* concurrently, the file ends up holding every emitted line exactly once and intact,
\* each process's lines in the order the process emitted them, and an emit only appends
\* and never rewrites what the file holds.
C24_EveryLineOnceIntactInOrder ==
    /\ [](Tracing /\ BuildDone => LinesIntactInOrder)
    /\ [][AppendOnly]_vars

CrateOf(p) ==
    LET crates == Unwrap(resolution).val.crates
    IN  {crates[i] : i \in {j \in DOMAIN crates : crates[j].name = p}}

\* the report holds for p one entry with the source, the prefix and the export names of
\* p's own resolution
AttributedOwn(p) ==
    CrateOf(p) = {[name |-> p,
                   manifest_dir |-> Some(DirOf(p)),
                   selected_source |-> Some(traceEnv.source[p]),
                   resolved_prefix |-> Some(p),
                   dependencies |-> <<>>,
                   symbols |-> <<ExportOf(p)>>]}

\* C26: in the resolution report built from the trace file every package is attributed
\* the selected source, the resolved prefix and the export names that its own
\* resolution emitted, for every interleaving of the trace lines of packages built
\* concurrently.
C26_ReportAttributesOwnResolution ==
    Tracing /\ IsSome(resolution) =>
        /\ Unwrap(resolution).ok
        /\ \A p \in Pkgs : AttributedOwn(p)

(***************************************************************************)
(* The dump run: write_exports_sidecar, alt_symbol_source_for_nro          *)
(* (src/src/out.rs) and run_dump_many (src/src/bin/cargo-symdump.rs)       *)
(*                                                                         *)
(* A file is a record of its path, stem and extension, its bytes, and what *)
(* nm and objdump print when run on it; a directory entry adds the time it *)
(* was modified and whether it lies in the directory itself or in deps.    *)
(***************************************************************************)
\* exported_symbols on a file that stays as it is during the call; tools: whether
\* pick_nm and pick_objdump find a tool.  Every flag combination of the nm loop gets
\* the same answer from the tool.
exported_symbols_retry(f, after_objdump) ==
    IF ~ after_objdump.ok THEN after_objdump
    ELSE IF needs_next_strategy(after_objdump.val) /\ is_nro(f)
    THEN CHOOSE out \in { IF again.ok THEN finish_extraction(again.val) ELSE again
                          : again \in {parse_nro_exports(f.data)} } : TRUE
    ELSE finish_extraction(after_objdump.val)

exported_symbols_objdump(f, tools, after_nm) ==
    IF ~ after_nm.ok THEN after_nm
    ELSE IF needs_next_strategy(after_nm.val) /\ tools.objdump
    THEN IF ~ f.objdump.spawned THEN Err(<<"failed to run objdump">>)
         ELSE IF f.objdump.success
         THEN CHOOSE out \in { exported_symbols_retry(f, Ok(list))
                               : list \in {parse_objdump_exports(f.objdump.stdout)} } : TRUE
         ELSE exported_symbols_retry(f, after_nm)
    ELSE exported_symbols_retry(f, after_nm)

exported_symbols_nm(f, tools, first) ==
    IF ~ first.ok THEN first
    ELSE IF needs_next_strategy(first.val) /\ tools.nm
    THEN CHOOSE out \in { exported_symbols_objdump(f, tools, r)
                          : r \in {run_nm("nm", f.nm)} } : TRUE
    ELSE exported_symbols_objdump(f, tools, first)

exported_symbols(f, tools) ==
    CHOOSE out \in { exported_symbols_nm(f, tools, first)
                     : first \in {IF is_nro(f) THEN parse_nro_exports(f.data) ELSE Ok(<<>>)} }
        : TRUE

StemLib == <<108, 105, 98>>          \* "lib"
ExplicitNames ==
    <<[lib |-> FALSE, ext |-> "nso"], [lib |-> FALSE, ext |-> "so"],
      [lib |-> FALSE, ext |-> "elf"], [lib |-> TRUE, ext |-> "nso"],
      [lib |-> TRUE, ext |-> "so"], [lib |-> TRUE, ext |-> "elf"]>>
CompanionExts == {"so", "nso", "elf", "dll", "dylib"}

\* fst.trim_start_matches("lib")
RECURSIVE trim_start_lib(_)
trim_start_lib(x) ==
    IF Len(x) >= 3 /\ SubSeq(x, 1, 3) = StemLib THEN trim_start_lib(SubSeq(x, 4, Len(x)))
    ELSE x

\* lines 412-425: the entries of the directory that carry one of the explicit names
explicit_candidates(stem, dir) ==
    LET named(k) == SelectSeq(dir, LAMBDA e :
                        /\ e.where = "parent"
                        /\ e.ext = ExplicitNames[k].ext
                        /\ e.stem = (IF ExplicitNames[k].lib THEN StemLib ELSE <<>>) \o stem)
    IN  named(1) \o named(2) \o named(3) \o named(4) \o named(5) \o named(6)

\* lines 427-449: the entries of one of the two scanned directories, in read_dir order
scan_candidates(stem, dir, where) ==
    SelectSeq(dir, LAMBDA e :
        /\ e.where = where
        /\ e.ext \in CompanionExts
        /\ str_contains(e.stem, stem) \/ str_contains(stem, trim_start_lib(e.stem)))

\* lines 451-463: the first candidate among those modified last
RECURSIVE newest_of(_, _)
newest_of(candidates, n) ==
    IF n = 0 THEN None
    ELSE CHOOSE out \in { IF IsSome(prev) /\ Unwrap(prev).mtime >= candidates[n].mtime
                          THEN prev ELSE Some(candidates[n])
                          : prev \in {newest_of(candidates, n - 1)} } : TRUE

alt_symbol_source_for_nro(a) ==
    LET candidates == explicit_candidates(a.stem, a.dir)
                          \o scan_candidates(a.stem, a.dir, "parent")
                          \o scan_candidates(a.stem, a.dir, "deps")
    IN  newest_of(candidates, Len(candidates))

\* write_exports_sidecar up to the write: the symbols of the body of the sidecar
sidecar_fallback(a, tools, own) ==
    IF own.ok THEN own
    ELSE IF is_nro(a)
    THEN CHOOSE out \in { IF ~ IsSome(alt) THEN own
                          ELSE CHOOSE got \in { IF other.ok THEN other
                                                ELSE Err(own.err \o <<"fallback">>
                                                         \o <<Unwrap(alt).stem>>
                                                         \o <<"also failed">> \o other.err)
                                                : other \in {exported_symbols(Unwrap(alt), tools)} }
                                   : TRUE
                          : alt \in {alt_symbol_source_for_nro(a)} } : TRUE
    ELSE own

sidecar_symbols(a, tools) ==
    CHOOSE out \in { sidecar_fallback(a, tools, own) : own \in {exported_symbols(a, tools)} }
        : TRUE

\* write_symbol_log for a single artifact: the rows of the custom parser for an nro,
\* else the names exported_symbols returns
write_symbol_log(a, tools) ==
    IF is_nro(a)
    THEN CHOOSE out \in { IF rows_.ok THEN Ok([k \in 1..Len(rows_.val) |-> rows_.val[k].name])
                          ELSE rows_
                          : rows_ \in {parse_nro_symbols(a.data)} } : TRUE
    ELSE exported_symbols(a, tools)

(***************************************************************************)
(* SpecDump: one run of run_dump_many over one or two artifacts            *)
(***************************************************************************)
StemPl == <<112, 108>>               \* "pl"
StemZz == <<122, 122>>               \* "zz"
NmSilent == ToolRun(TRUE, TRUE, <<>>)
NmLists == ToolRun(TRUE, TRUE, NmListing)
ObjdumpSilent == ToolRun(TRUE, TRUE, <<>>)
DirEntry(stem, ext, mtime, where, nm) ==
    [stem |-> stem, ext |-> ext, mtime |-> mtime, where |-> where, data |-> <<>>,
     nm |-> nm, objdump |-> ObjdumpSilent]
\* no companion; one with symbols; a newer one in deps without symbols; two with
\* symbols of the same age; files that are no companion
DumpDirs ==
    {<<>>,
     <<DirEntry(StemPl, "so", 1, "parent", NmLists)>>,
     <<DirEntry(StemPl, "so", 1, "parent", NmLists),
       DirEntry(StemLib \o StemPl, "elf", 2, "deps", NmSilent)>>,
     <<DirEntry(StemLib \o StemPl, "dylib", 2, "deps", NmLists),
       DirEntry(StemPl, "elf", 2, "parent", NmSilent)>>,
     <<DirEntry(StemZz, "so", 3, "parent", NmLists),
       DirEntry(StemPl, "txt", 3, "parent", NmLists)>>}

DumpArtifact(ext, data, nm, dir) ==
    [stem |-> StemPl, ext |-> ext, data |-> data, nm |-> nm, objdump |-> ObjdumpSilent,
     dir |-> dir]
DumpArtifacts ==
    {DumpArtifact("nro", data, NmSilent, dir) :
        data \in {ImgRepeat, ImgNoSyms, ImgBadMagic}, dir \in DumpDirs}
    \cup {DumpArtifact("so", ImgRepeat, nm, dir) :
        nm \in {NmSilent, NmLists}, dir \in {<<>>, <<DirEntry(StemPl, "so", 1, "parent", NmLists)>>}}

\* the path of the i-th artifact: its own directory and its file name
DumpPath(i) == <<<<48 + i>>, StemPl>>

InitDump ==
    /\ \E tools \in [nm : BOOLEAN, objdump : BOOLEAN] :
       \E n \in {1, 2} :
       \E fs \in [1..n -> DumpArtifacts] :
           dumpFiles = [tools |-> tools, files |-> fs]
    /\ dumpPc = 1
    /\ sidecars = <<>>
    /\ exportsByFile = <<>>
    /\ dumpResult = None
    /\ LibIdle
    /\ ParseIdle
    /\ ExtractIdle
    /\ DupIdle
    /\ WalkIdle
    /\ FlatIdle
    /\ AppendIdle

DumpRunning == dumpFiles /= <<>> /\ dumpResult = None

\* line 692: write_exports_sidecar(artifact)?
WriteSidecar ==
    /\ DumpRunning
    /\ dumpPc <= Len(dumpFiles.files)
    /\ Len(sidecars) < dumpPc
    /\ \E r \in {sidecar_symbols(dumpFiles.files[dumpPc], dumpFiles.tools)} :
        IF r.ok
        THEN /\ sidecars' = Append(sidecars, [path |-> DumpPath(dumpPc), symbols |-> r.val])
             /\ UNCHANGED dumpResult
        ELSE /\ dumpResult' = Some(r)
             /\ UNCHANGED sidecars
    /\ UNCHANGED <<dumpFiles, dumpPc, exportsByFile, libVars, parseVars, extractVars,
                   dupVars, walkVars, flatVars, appendVars>>

\* lines 693-696: exported_symbols(artifact)? and the push onto exports_by_file
CollectSymbols ==
    /\ DumpRunning
    /\ dumpPc <= Len(dumpFiles.files)
    /\ Len(sidecars) = dumpPc
    /\ \E r \in {exported_symbols(dumpFiles.files[dumpPc], dumpFiles.tools)} :
        IF r.ok
        THEN /\ exportsByFile' = Append(exportsByFile,
                                        [path |-> DumpPath(dumpPc), symbols |-> r.val])
             /\ dumpPc' = dumpPc + 1
             /\ UNCHANGED dumpResult
        ELSE /\ dumpResult' = Some(r)
             /\ UNCHANGED <<exportsByFile, dumpPc>>
    /\ UNCHANGED <<dumpFiles, sidecars, libVars, parseVars, extractVars, dupVars,
                   walkVars, flatVars, appendVars>>

\* lines 699-731: the symbol log and the duplicate detection
FinishDump ==
    /\ DumpRunning
    /\ dumpPc > Len(dumpFiles.files)
    /\ \E log \in {IF Len(exportsByFile) = 1
                   THEN write_symbol_log(dumpFiles.files[1], dumpFiles.tools)
                   ELSE Ok(exportsByFile)} :
        dumpResult' = Some(IF log.ok
                           THEN Ok([sym_log |-> log.val,
                                    duplicates |-> find_duplicate_symbols(exportsByFile)])
                           ELSE log)
    /\ UNCHANGED <<dumpFiles, dumpPc, sidecars, exportsByFile, libVars, parseVars,
                   extractVars, dupVars, walkVars, flatVars, appendVars>>

NextDump == WriteSidecar \/ CollectSymbols \/ FinishDump

SpecDump == InitDump /\ [][NextDump]_vars

(***************************************************************************)
(* Properties of the dump run (SpecDump)                                   *)
(***************************************************************************)
SidecarWritten(i) == i <= Len(sidecars)
Collected(i) == i <= Len(exportsByFile)
OwnResult(i) == exported_symbols(dumpFiles.files[i], dumpFiles.tools)
\* the companions of the i-th artifact and those among them modified last
Companions(i) ==
    LET a == dumpFiles.files[i]
    IN  {a.dir[k] : k \in {j \in DOMAIN a.dir :
            /\ a.dir[j].ext \in CompanionExts
            /\ \/ str_contains(a.dir[j].stem, a.stem)
               \/ str_contains(a.stem, trim_start_lib(a.dir[j].stem))}}
LatestCompanions(i) == {c \in Companions(i) : \A d \in Companions(i) : d.mtime <= c.mtime}

\* the sidecar holds the artifact's own symbols, or, for an nro whose own extraction
\* failed, the symbols of a companion modified last
SidecarFromOwnOrCompanion(i) ==
    IF OwnResult(i).ok THEN sidecars[i].symbols = OwnResult(i).val
    ELSE /\ is_nro(dumpFiles.files[i])
         /\ \E c \in LatestCompanions(i) :
                /\ exported_symbols(c, dumpFiles.tools).ok
                /\ sidecars[i].symbols = exported_symbols(c, dumpFiles.tools).val

\* C27: extraction falls back to the most recently modified companion, only for an nro
\* whose own strategies yield nothing, and whenever the sidecar of an artifact is
\* written the same run also obtains that artifact's symbol list for the symbol log and
\* the duplicate detection, equal to the sidecar's: the run does not fail between
\* writing the sidecar and collecting the symbols.
C27_SidecarAndCollectedListsAgree ==
    \A i \in 1..Len(sidecars) :
        /\ SidecarFromOwnOrCompanion(i)
        /\ IsSome(dumpResult) \/ dumpPc > i =>
              /\ Collected(i)
              /\ exportsByFile[i] = sidecars[i]

(***************************************************************************)
(* Properties of the module rules (SpecRules)                              *)
(***************************************************************************)
CallRules == moduleCall.rules
\* the two forms a function is tested in: its name and module::name
Forms(name) == {name, moduleCall.module_name \o PathSep \o name}
MatchesRegexOf(list, subject) == \E i \in DOMAIN list : subject \in list[i].matches
MatchesGlobOf(list, subject) == \E i \in DOMAIN list : wildcard_match(list[i], subject)

\* included, each list tested on either form
IncludedAnyForm(name) ==
    /\ CallRules.include_regex = <<>>
          \/ \E subject \in Forms(name) : MatchesRegexOf(CallRules.include_regex, subject)
    /\ CallRules.include_glob = <<>>
          \/ \E subject \in Forms(name) : MatchesGlobOf(CallRules.include_glob, subject)
\* included, one form passing both lists
IncludedOneForm(name) ==
    \E subject \in Forms(name) :
        /\ CallRules.include_regex = <<>> \/ MatchesRegexOf(CallRules.include_regex, subject)
        /\ CallRules.include_glob = <<>> \/ MatchesGlobOf(CallRules.include_glob, subject)
ExcludedAnyForm(name) ==
    \E subject \in Forms(name) :
        \/ MatchesRegexOf(CallRules.exclude_regex, subject)
        \/ MatchesGlobOf(CallRules.exclude_glob, subject)

\* the template with each placeholder, met from left to right, replaced by its value
RECURSIVE Substituted(_, _)
Substituted(tpl, subs) ==
    IF tpl = <<>> THEN <<>>
    ELSE LET hits == {k \in DOMAIN subs :
                         /\ Len(subs[k][1]) <= Len(tpl)
                         /\ SubSeq(tpl, 1, Len(subs[k][1])) = subs[k][1]}
         IN  IF hits = {} THEN <<tpl[1]>> \o Substituted(Tail(tpl), subs)
             ELSE LET k == CHOOSE h \in hits : TRUE
                  IN  subs[k][2] \o Substituted(SubSeq(tpl, Len(subs[k][1]) + 1, Len(tpl)), subs)

CallSep == IF IsSome(Cfg.sep) THEN Unwrap(Cfg.sep) ELSE DefaultSep
CallSuffix == IF IsSome(CallRules.suffix) THEN Unwrap(CallRules.suffix) ELSE <<>>
ExpectedExport(name) ==
    IF IsSome(CallRules.template)
    THEN Substituted(Unwrap(CallRules.template),
                     <<<<TplPrefix, last.prefix>>, <<TplSep, CallSep>>,
                       <<TplModule, moduleCall.module_name>>, <<TplName, name>>,
                       <<TplSuffix, CallSuffix>>>>)
    ELSE last.prefix \o CallSep \o name \o CallSuffix

RulesApplied == moduleCall /= <<>> /\ last.outcome = "applied"
ExportsOf(name) == {x.export : x \in {y \in last.exports : y.fn = name}}
\* the functions named by pick receive their export name and no other function does
ExportsExactly(pick(_)) ==
    \A i \in DOMAIN moduleCall.m.fns :
        LET f == moduleCall.m.fns[i]
        IN  IF ~ f.generic /\ pick(f.name)
            THEN ExportsOf(f.name) = {ExpectedExport(f.name)}
            ELSE ExportsOf(f.name) = {}

\* C25 as stated: a non-generic function receives an export name exactly when some
\* include regex (or none listed) and some include glob (or none listed) match it, each
\* on its name or on module::name, and no exclude regex or glob matches either form;
\* the name is the template with its placeholders substituted, or prefix sep name
\* suffix.
C25_IncludedOnEitherForm ==
    RulesApplied =>
        ExportsExactly(LAMBDA n : IncludedAnyForm(n) /\ ~ ExcludedAnyForm(n))

\* C25, as the code decides it (filter.rs 141-146): a non-generic function receives an
\* export name exactly when one of its two forms, its name or module::name, matches some include regex (or none is
\* listed) and that same form matches some include glob (or none is listed), and no
\* exclude regex or glob matches either form; the name is the template with its
\* placeholders substituted, or prefix sep name suffix.
C25_IncludedOnOneForm ==
    RulesApplied =>
        ExportsExactly(LAMBDA n : IncludedOneForm(n) /\ ~ ExcludedAnyForm(n))

\* include_regex ^m::f$, include_glob m::*, exclude_glob *g, a template and a suffix:
\* f is exported under the rendered name, g and the generic h are not
C25_Witness ==
    /\ RulesApplied
    /\ CallRules.include_regex = <<ReQual>>
    /\ CallRules.include_glob = <<GlobQual>>
    /\ CallRules.exclude_regex = <<>>
    /\ CallRules.exclude_glob = <<StarG>>
    /\ CallRules.template = Some(TplFull)
    /\ CallRules.suffix = Some(SuffixS)
    /\ last.exports = {[fn |-> FnF,
                        export |-> last.prefix \o DefaultSep \o ModM \o <<95>> \o FnF \o SuffixS]}

====
